---- MODULE Spec2Model ----
(***************************************************************************)
(* Rail scheduler: the reservation table of src/scheduler.py, the topology *)
(* of src/models.py, the full-route scheduling algorithm                   *)
(* Scheduler.schedule_route in its two modes, GREEDY and CSP, and the      *)
(* simulation loop of src/main.py (App.start_simulation,                   *)
(* App.update_simulation).                                                 *)
(*                                                                         *)
(* Spec      schedule_route step by step: one step per iteration of its    *)
(*           loop over legs and one step per track segment of a leg, with  *)
(*           cleanup and reset between calls.  The scheduler is single     *)
(*           threaded, so while a call is in flight (pc # "idle") nothing  *)
(*           else runs.                                                    *)
(* SpecTable _reserve and _check_conflict called with arbitrary arguments. *)
(* SpecRace  two schedule_route executions on parallel threads, with and   *)
(*           without a critical section around check-and-reserve.          *)
(* SpecSim   the application: planning at the start of a simulation and    *)
(*           one step per simulation tick.                                 *)
(***************************************************************************)
EXTENDS Integers, Sequences, FiniteSets, TLC

VARIABLES
    pos,                \* RailwayGraph.cached_pos: station -> <<x, y>>
    weight,             \* RailwayGraph.graph edges: edge key -> weight
    reservations,       \* Scheduler.reservations: edge key -> list of <<start, end, train_id>>
    pc,                 \* position inside schedule_route: "idle", "leg", "edge"
    train_id, stops, color, start_time, mode,   \* arguments of the call in flight / last call
    i, path, j,         \* loop variables of schedule_route
    curr_t,             \* cursor time
    conflicts_avoided,  \* counter returned by schedule_route
    all_events,         \* event list returned by schedule_route
    ncalls,             \* number of schedule_route calls made so far
    probe,              \* arguments and result of the latest direct _check_conflict call
    threads,            \* parallel host: the schedule_route execution of each thread
    atomic,             \* parallel host: check and reserve are one critical section
    app_mode,           \* App.mode: "EDITOR" or "RUNNING"
    algorithm_mode,     \* App.algorithm_mode: "CSP" or "GREEDY"
    sim_time,           \* App.sim_time
    train_route_configs,    \* App.train_route_configs, in insertion order
    train_agents,       \* App.train_agents, in insertion order
    planned_events,     \* App.planned_events
    total_collisions_avoided,   \* App.total_collisions_avoided
    scheduling_ops      \* App.scheduling_ops

args == <<train_id, stops, color, start_time, mode>>
locals == <<i, path, j, curr_t, conflicts_avoided, all_events>>
topology == <<pos, weight>>
host == <<threads, atomic>>
app == <<app_mode, algorithm_mode, sim_time, train_route_configs, train_agents,
         planned_events, total_collisions_avoided, scheduling_ops>>
vars == <<pos, weight, reservations, pc, train_id, stops, color, start_time, mode,
          i, path, j, curr_t, conflicts_avoided, all_events, ncalls, probe,
          threads, atomic, app_mode, algorithm_mode, sim_time, train_route_configs,
          train_agents, planned_events, total_collisions_avoided, scheduling_ops>>

----------------------------------------------------------------------------
(* Bounds of the model *)

MaxCalls == 2

MaxTableSize == 2

(* Program constants *)

DEFAULT_MARGIN == 15
GREEDY_STEP == 20
CSP_STEP == 10
CSP_LIMIT == 5000
DWELL == 5
CLEANUP_GRACE == 100
PIXELS_PER_TICK == 5

----------------------------------------------------------------------------
(* Station names.  Python compares them as strings; the sequence below     *)
(* lists the names used by the model in lexicographic order.               *)

NameOrder == <<"A", "B", "C", "D", "E", "Z">>

Names == {NameOrder[n] : n \in 1..Len(NameOrder)}

Rank(s) == CHOOSE n \in 1..Len(NameOrder) : NameOrder[n] = s

StrLess(a, b) == Rank(a) < Rank(b)

Max(a, b) == IF a >= b THEN a ELSE b

Abs(a) == IF a < 0 THEN -a ELSE a

----------------------------------------------------------------------------
(* Topology: src/models.py RailwayGraph *)

\* The key networkx uses for an undirected edge is order independent.
graph_edge(u, v) == IF StrLess(u, v) THEN <<u, v>> ELSE <<v, u>>

add_station(p, name, x, y) ==
    [n \in (DOMAIN p) \cup {name} |-> IF n = name THEN <<x, y>> ELSE p[n]]

\* variant: the distance in pixels is taken as the travel time
track_ticks_no_speed(dx, dy) ==
    CHOOSE n \in 0..(Abs(dx) + Abs(dy) + 1) :
        n * n <= dx * dx + dy * dy /\ (n + 1) * (n + 1) > dx * dx + dy * dy

\* int(math.hypot(dx, dy) / 5.0): the largest n with (5n)^2 <= dx^2 + dy^2
track_ticks(dx, dy) ==
    CHOOSE n \in 0..((Abs(dx) + Abs(dy)) \div PIXELS_PER_TICK + 1) :
        /\ (PIXELS_PER_TICK * n) * (PIXELS_PER_TICK * n) <= dx * dx + dy * dy
        /\ (PIXELS_PER_TICK * (n + 1)) * (PIXELS_PER_TICK * (n + 1)) > dx * dx + dy * dy

\* variant: the weight is not clamped from below
track_weight_unclamped(p, u, v) ==
    track_ticks(p[v][1] - p[u][1], p[v][2] - p[u][2])

track_weight(p, u, v) ==
    Max(1, track_ticks(p[v][1] - p[u][1], p[v][2] - p[u][2]))

add_track(p, w, u, v) ==
    IF u \in DOMAIN p /\ v \in DOMAIN p
    THEN [k \in (DOMAIN w) \cup {graph_edge(u, v)} |->
             IF k = graph_edge(u, v) THEN track_weight(p, u, v) ELSE w[k]]
    ELSE w

neighbours(w, n) == {m \in Names : m # n /\ graph_edge(n, m) \in DOMAIN w}

\* every simple path from cur to target that avoids the stations in visited
RECURSIVE simple_paths(_, _, _, _)
simple_paths(w, cur, target, visited) ==
    IF cur = target THEN {<<cur>>}
    ELSE UNION {{<<cur>> \o q : q \in simple_paths(w, n, target, visited \cup {n})} :
                   n \in neighbours(w, cur) \ visited}

RECURSIVE path_weight(_, _)
path_weight(w, q) ==
    IF Len(q) < 2 THEN 0
    ELSE w[graph_edge(q[1], q[2])] + path_weight(w, Tail(q))

\* variant: the path with the fewest tracks, whatever their weights
get_path_fewest_tracks(p, w, start, end) ==
    IF start \notin DOMAIN p \/ end \notin DOMAIN p THEN {<<>>}
    ELSE LET all == simple_paths(w, start, end, {start})
             best == {q \in all : \A r \in all : Len(q) <= Len(r)}
         IN  IF all = {} THEN {<<>>} ELSE best

\* nx.shortest_path(graph, source, target, weight='weight'): the paths it may
\* return; the choice among paths of equal weight is left to networkx.
\* NodeNotFound and NetworkXNoPath are caught and give the empty list.
get_path(p, w, start, end) ==
    IF start \notin DOMAIN p \/ end \notin DOMAIN p THEN {<<>>}
    ELSE LET all == simple_paths(w, start, end, {start})
             best == {q \in all : \A r \in all : path_weight(w, q) <= path_weight(w, r)}
         IN  IF all = {} THEN {<<>>} ELSE best

----------------------------------------------------------------------------
(* Reservation table: src/scheduler.py Scheduler *)

\* variant: the key is the pair in the direction of travel
get_edge_key_directed(u, v) == <<u, v>>

EmptyTable == [k \in {} |-> <<>>]

get_edge_key(u, v) == IF StrLess(u, v) THEN <<u, v>> ELSE <<v, u>>

\* variant: the margin is added on one side of the comparison only
overlaps_one_sided(r, start, end, margin) ==
    start < (r[2] + margin) /\ end > r[1]

\* variant: a stored reservation is in the way only when it starts first
overlaps_starts_first(r, start, end, margin) ==
    start < (r[2] + margin) /\ (end + margin) > r[1] /\ start <= r[1]

\* the overlap test of one stored reservation r = <<r_start, r_end, train>>
overlaps(r, start, end, margin) ==
    start < (r[2] + margin) /\ (end + margin) > r[1]

\* variant: the loop returns after looking at its first entry
scan_conflict_first_only(list, n, start, end, margin) ==
    IF n > Len(list) THEN FALSE
    ELSE overlaps(list[n], start, end, margin)

\* the for loop of _check_conflict from entry n on, returning at the first hit
RECURSIVE scan_conflict(_, _, _, _, _)
scan_conflict(list, n, start, end, margin) ==
    IF n > Len(list) THEN FALSE
    ELSE IF overlaps(list[n], start, end, margin) THEN TRUE
    ELSE scan_conflict(list, n + 1, start, end, margin)

\* variant: the table is looked up under (u, v) as given, not under the
\* canonical key
check_conflict_directed(res, u, v, start, end, margin) ==
    IF <<u, v>> \notin DOMAIN res THEN FALSE
    ELSE scan_conflict(res[<<u, v>>], 1, start, end, margin)

check_conflict(res, u, v, start, end, margin) ==
    IF get_edge_key(u, v) \notin DOMAIN res THEN FALSE
    ELSE scan_conflict(res[get_edge_key(u, v)], 1, start, end, margin)

\* variant: a new reservation pushes the earlier ones of its segment out
reserve_replaces(res, u, v, start, end, tid) ==
    (get_edge_key(u, v) :> << <<start, end, tid>> >>) @@ res

\* variant: a reservation that conflicts with a stored one is not recorded
reserve_unless_conflict(res, u, v, start, end, tid) ==
    IF check_conflict(res, u, v, start, end, 0) THEN res
    ELSE LET edge_key == get_edge_key(u, v)
             base == IF edge_key \notin DOMAIN res THEN (edge_key :> <<>>) @@ res ELSE res
         IN  [base EXCEPT ![edge_key] = Append(@, <<start, end, tid>>)]

\* variant: the reservation is recorded under both directions of the pair
reserve_both_directions(res, u, v, start, end, tid) ==
    LET fwd == <<u, v>>
        bwd == <<v, u>>
        base == [k \in (DOMAIN res) \cup {fwd, bwd} |->
                    IF k \in DOMAIN res THEN res[k] ELSE <<>>]
    IN  [k \in DOMAIN base |-> IF k \in {fwd, bwd}
                                THEN Append(base[k], <<start, end, tid>>)
                                ELSE base[k]]

reserve(res, u, v, start, end, tid) ==
    LET edge_key == get_edge_key(u, v)
        base == IF edge_key \notin DOMAIN res THEN (edge_key :> <<>>) @@ res ELSE res
    IN  [base EXCEPT ![edge_key] = Append(@, <<start, end, tid>>)]

\* variant: the lists are emptied but their keys stay in the table
reset_keeps_keys(res) == [k \in DOMAIN res |-> <<>>]

\* def reset(self): self.reservations.clear()
reset(res) == EmptyTable

\* variant: every reservation that has ended by now is dropped
kept_until_now(r, current_time) == r[2] > current_time

\* variant: a reservation that ends exactly at the cutoff is kept
kept_inclusive(r, current_time) == r[2] >= current_time - CLEANUP_GRACE

kept(r, current_time) == r[2] > current_time - CLEANUP_GRACE

\* the list without its first reservation that is not kept
RECURSIVE drop_first_stale(_, _)
drop_first_stale(list, current_time) ==
    IF list = <<>> THEN <<>>
    ELSE IF ~kept(Head(list), current_time) THEN Tail(list)
    ELSE <<Head(list)>> \o drop_first_stale(Tail(list), current_time)

\* variant: one pass drops at most one reservation of each segment
cleanup_one_per_segment(res, current_time) ==
    LET filtered == [k \in DOMAIN res |-> drop_first_stale(res[k], current_time)]
        keys_to_remove == {k \in DOMAIN res : filtered[k] = <<>>}
    IN  [k \in (DOMAIN res) \ keys_to_remove |-> filtered[k]]

cleanup_old_reservations(res, current_time) ==
    LET filtered == [k \in DOMAIN res |->
                        SelectSeq(res[k], LAMBDA r : kept(r, current_time))]
        keys_to_remove == {k \in DOMAIN res : filtered[k] = <<>>}
    IN  [k \in (DOMAIN res) \ keys_to_remove |-> filtered[k]]

----------------------------------------------------------------------------
(* The two slot searches of schedule_route *)

\* variant: the two stations of the event are stored the other way round
ScheduleEvent_reversed(tid, src, tgt, s, e, c) ==
    [train_id |-> tid, source |-> tgt, target |-> src,
     start_time |-> s, end_time |-> e, color |-> c]

ScheduleEvent(tid, src, tgt, s, e, c) ==
    [train_id |-> tid, source |-> src, target |-> tgt,
     start_time |-> s, end_time |-> e, color |-> c]

\* variant: the wait advances the cursor without counting the conflict
greedy_iter_no_count(res, u, v, w, s) ==
    IF s.done THEN s
    ELSE IF check_conflict(res, u, v, s.t, s.t + w, DEFAULT_MARGIN)
         THEN [t |-> s.t + GREEDY_STEP, c |-> s.c, done |-> FALSE]
         ELSE [s EXCEPT !.done = TRUE]

\* variant: a wait moves the cursor by 10 ticks
greedy_iter_short_wait(res, u, v, w, s) ==
    IF s.done THEN s
    ELSE IF check_conflict(res, u, v, s.t, s.t + w, DEFAULT_MARGIN)
         THEN [t |-> s.t + CSP_STEP, c |-> s.c + 1, done |-> FALSE]
         ELSE [s EXCEPT !.done = TRUE]

\* GREEDY: one evaluation of the loop
\*     while self._check_conflict(u, v, curr_t, curr_t + weight):
\*         curr_t += 20; conflicts_avoided += 1
\* on the loop state s = [t, c, done]; a finished loop stays as it is
greedy_iter(res, u, v, w, s) ==
    IF s.done THEN s
    ELSE IF check_conflict(res, u, v, s.t, s.t + w, DEFAULT_MARGIN)
         THEN [t |-> s.t + GREEDY_STEP, c |-> s.c + 1, done |-> FALSE]
         ELSE [s EXCEPT !.done = TRUE]

\* up to n evaluations of the loop, one after the other, stopping at its exit
\* (split in halves to keep the evaluation shallow; the state h after the
\* first half is bound as a value before the second half starts from it)
RECURSIVE greedy_run(_, _, _, _, _, _)
greedy_run(res, u, v, w, s, n) ==
    IF n <= 0 THEN s
    ELSE IF n = 1 THEN greedy_iter(res, u, v, w, s)
    ELSE CHOOSE r \in { IF h.done THEN h
                        ELSE greedy_run(res, u, v, w, h, n - n \div 2) :
                            h \in {greedy_run(res, u, v, w, s, n \div 2)} } : TRUE

\* the latest end of a reservation in a non-empty list
RECURSIVE last_end(_)
last_end(list) ==
    IF Len(list) = 1 THEN list[1][2] ELSE Max(list[1][2], last_end(Tail(list)))

\* a number of evaluations that lets the GREEDY loop run to its exit: the
\* test is false as soon as curr_t is at or past every r_end + margin
greedy_fuel(res, u, v, t) ==
    IF get_edge_key(u, v) \notin DOMAIN res THEN 1
    ELSE Max(1, (last_end(res[get_edge_key(u, v)]) + DEFAULT_MARGIN - t) \div GREEDY_STEP + 2)

\* variant: the GREEDY conflict test is made without a safety margin
greedy_wait_no_margin(res, u, v, t, w, c) ==
    IF check_conflict(res, u, v, t, t + w, 0)
    THEN greedy_run(res, u, v, w, [t |-> t + GREEDY_STEP, c |-> c + 1, done |-> FALSE],
                    greedy_fuel(res, u, v, t))
    ELSE [t |-> t, c |-> c, done |-> TRUE]

\* the cursor and the counter at the exit of the GREEDY loop
greedy_wait(res, u, v, t, w, c) ==
    greedy_run(res, u, v, w, [t |-> t, c |-> c, done |-> FALSE], greedy_fuel(res, u, v, t))

\* variant: the safety break is taken as soon as the offset reaches the limit
csp_iter_early_break(res, u, v, t, w, s) ==
    IF s.status # "probing" THEN s
    ELSE IF ~check_conflict(res, u, v, s.t, s.t + w, DEFAULT_MARGIN)
         THEN [s EXCEPT !.status = "found"]
         ELSE [t |-> s.t + CSP_STEP, c |-> s.c + 1,
               status |-> IF (s.t + CSP_STEP) - t >= CSP_LIMIT THEN "aborted" ELSE "probing"]

\* variant: the probe has no safety break
csp_iter_no_break(res, u, v, t, w, s) ==
    IF s.status # "probing" THEN s
    ELSE IF ~check_conflict(res, u, v, s.t, s.t + w, DEFAULT_MARGIN)
         THEN [s EXCEPT !.status = "found"]
         ELSE [t |-> s.t + CSP_STEP, c |-> s.c + 1, status |-> "probing"]

\* variant: the probe advances by 30 ticks
csp_iter_step_30(res, u, v, t, w, s) ==
    IF s.status # "probing" THEN s
    ELSE IF ~check_conflict(res, u, v, s.t, s.t + w, DEFAULT_MARGIN)
         THEN [s EXCEPT !.status = "found"]
         ELSE [t |-> s.t + CSP_STEP + GREEDY_STEP, c |-> s.c + 1,
               status |-> IF (s.t + CSP_STEP + GREEDY_STEP) - t > CSP_LIMIT
                          THEN "aborted" ELSE "probing"]

\* CSP: one pass through the body of the `while True` probe on the loop state
\* s = [t (attempt_t), c, status]; status is "probing" until the loop is left
\* by the break after a booking ("found") or by the safety break ("aborted")
csp_iter(res, u, v, t, w, s) ==
    IF s.status # "probing" THEN s
    ELSE IF ~check_conflict(res, u, v, s.t, s.t + w, DEFAULT_MARGIN)
         THEN [s EXCEPT !.status = "found"]
         ELSE [t |-> s.t + CSP_STEP, c |-> s.c + 1,
               status |-> IF (s.t + CSP_STEP) - t > CSP_LIMIT THEN "aborted" ELSE "probing"]

RECURSIVE csp_run(_, _, _, _, _, _, _)
csp_run(res, u, v, t, w, s, n) ==
    IF n <= 0 THEN s
    ELSE IF n = 1 THEN csp_iter(res, u, v, t, w, s)
    ELSE CHOOSE r \in { IF h.status # "probing" THEN h
                        ELSE csp_run(res, u, v, t, w, h, n - n \div 2) :
                            h \in {csp_run(res, u, v, t, w, s, n \div 2)} } : TRUE

\* the safety break ends the probe after at most CSP_LIMIT / CSP_STEP + 1 passes
csp_fuel == CSP_LIMIT \div CSP_STEP + 1

\* the probe of one segment from cursor t with counter c
csp_probe(res, u, v, t, w, c) ==
    csp_run(res, u, v, t, w, [t |-> t, c |-> c, status |-> "probing"], csp_fuel)

edge_weight(w, u, v) == w[graph_edge(u, v)]

----------------------------------------------------------------------------
(* Inputs *)

\* station layout: A-B is a short track (300 px, weight 60), A-C a long one
\* (25000 px, weight 5000), D has no track to A, B or C, E lies on the same
\* point as D and is joined to it (0 px, weight 1), Z is never registered
ScenarioStations ==
    <<<<"A", 0, 0>>, <<"B", 300, 0>>, <<"C", 0, 25000>>, <<"D", 900, 900>>,
      <<"E", 900, 900>>>>

ScenarioTracks == <<<<"A", "B">>, <<"A", "C">>, <<"D", "E">>>>

RECURSIVE load_stations(_, _)
load_stations(p, list) ==
    IF list = <<>> THEN p
    ELSE load_stations(add_station(p, list[1][1], list[1][2], list[1][3]), Tail(list))

RECURSIVE load_tracks(_, _, _)
load_tracks(p, w, list) ==
    IF list = <<>> THEN w
    ELSE load_tracks(p, add_track(p, w, list[1][1], list[1][2]), Tail(list))

TrainIds == {1, 2}

Colors == {<<255, 0, 0>>}

StartTimes == {0, 15}

Modes == {"GREEDY", "CSP"}

\* fewer than 2 stops (two lists), one direct leg, a two-segment leg over
\* the long track followed by a return leg, two legs over different tracks,
\* an unreachable and a degenerate leg before a reachable one, a leg to an
\* unregistered station, and a leg over the track of weight 1
StopLists == { <<>>, <<"A">>, <<"A", "B">>, <<"C", "B", "A">>, <<"B", "A", "C">>,
               <<"D", "A", "A", "B">>, <<"A", "Z">>, <<"E", "D">> }

CleanupTimes == {160, 5200}

NoProbe == [called |-> FALSE]

\* the program itself runs schedule_route on one thread only
NoThreads == [t \in {} |-> [pc |-> "done"]]

----------------------------------------------------------------------------
(* Initial state: App.load_scenario_* builds the graph, Scheduler.__init__  *)
(* creates an empty table                                                   *)

InitScheduler ==
    /\ pos = load_stations(EmptyTable, ScenarioStations)
    /\ weight = load_tracks(load_stations(EmptyTable, ScenarioStations), EmptyTable, ScenarioTracks)
    /\ reservations = EmptyTable
    /\ pc = "idle"
    /\ train_id = 0 /\ stops = <<>> /\ color = <<0, 0, 0>> /\ start_time = 0 /\ mode = "GREEDY"
    /\ i = 0 /\ path = <<>> /\ j = 0
    /\ curr_t = 0
    /\ conflicts_avoided = 0
    /\ all_events = <<>>
    /\ ncalls = 0
    /\ probe = NoProbe

\* App.__init__ before any train is configured
InitApp ==
    /\ app_mode = "EDITOR"
    /\ algorithm_mode = "CSP"
    /\ sim_time = 0
    /\ train_route_configs = <<>>
    /\ train_agents = <<>>
    /\ planned_events = <<>>
    /\ total_collisions_avoided = 0
    /\ scheduling_ops = 0

Init ==
    /\ InitScheduler
    /\ threads = NoThreads
    /\ atomic = TRUE
    /\ InitApp

----------------------------------------------------------------------------
(* schedule_route, step by step *)

\* variant: the event list and the counter are kept from the call before
CallKeepsResults(tid, st, c, t0, m) ==
    /\ pc = "idle"
    /\ ncalls < MaxCalls
    /\ ncalls' = ncalls + 1
    /\ train_id' = tid /\ stops' = st /\ color' = c /\ start_time' = t0 /\ mode' = m
    /\ curr_t' = t0
    /\ i' = 0 /\ path' = <<>> /\ j' = 0
    /\ pc' = "leg"
    /\ UNCHANGED <<topology, host, app, reservations, probe, all_events, conflicts_avoided>>

\* entry: all_events = [], conflicts_avoided = 0, curr_t = start_time
Call(tid, st, c, t0, m) ==
    /\ pc = "idle"
    /\ ncalls < MaxCalls
    /\ ncalls' = ncalls + 1
    /\ train_id' = tid /\ stops' = st /\ color' = c /\ start_time' = t0 /\ mode' = m
    /\ all_events' = <<>>
    /\ conflicts_avoided' = 0
    /\ curr_t' = t0
    /\ i' = 0 /\ path' = <<>> /\ j' = 0
    /\ pc' = "leg"
    /\ UNCHANGED <<topology, host, app, reservations, probe>>

\* for i in range(len(stops) - 1): the leg stops[i] -> stops[i+1] (0-based i)
HasLeg == i < Len(stops) - 1

\* variant: a skipped leg still adds the dwell time to the cursor
SkipLegWithDwell ==
    /\ pc = "leg" /\ i < Len(stops) - 1
    /\ \E q \in get_path(pos, weight, stops[i + 1], stops[i + 2]) :
          /\ Len(q) < 2
          /\ path' = q
    /\ i' = i + 1
    /\ curr_t' = curr_t + DWELL
    /\ UNCHANGED <<topology, host, app, reservations, pc, args, j, conflicts_avoided,
                   all_events, ncalls, probe>>

\* if not path or len(path) < 2: continue
SkipLeg ==
    /\ pc = "leg" /\ HasLeg
    /\ \E q \in get_path(pos, weight, stops[i + 1], stops[i + 2]) :
          /\ Len(q) < 2
          /\ path' = q
    /\ i' = i + 1
    /\ UNCHANGED <<topology, host, app, reservations, pc, args, j, curr_t, conflicts_avoided,
                   all_events, ncalls, probe>>

BeginLeg ==
    /\ pc = "leg" /\ HasLeg
    /\ \E q \in get_path(pos, weight, stops[i + 1], stops[i + 2]) :
          /\ Len(q) >= 2
          /\ path' = q
    /\ j' = 0
    /\ pc' = "edge"
    /\ UNCHANGED <<topology, host, app, reservations, args, i, curr_t, conflicts_avoided,
                   all_events, ncalls, probe>>

\* for j in range(len(path) - 1): the segment path[j] -> path[j+1] (0-based j)
HasEdge == j < Len(path) - 1

edge_u == path[j + 1]

edge_v == path[j + 2]

\* variant: the dwell time is added after every segment
EdgeGreedyDwellsPerEdge ==
    /\ pc = "edge" /\ HasEdge /\ mode = "GREEDY"
    /\ \E w \in {edge_weight(weight, edge_u, edge_v)} :
       \E g \in {greedy_wait(reservations, edge_u, edge_v, curr_t, w, conflicts_avoided)} :
           /\ g.done
           /\ reservations' = reserve(reservations, edge_u, edge_v, g.t, g.t + w, train_id)
           /\ all_events' = Append(all_events,
                                   ScheduleEvent(train_id, edge_u, edge_v, g.t, g.t + w, color))
           /\ conflicts_avoided' = g.c
           /\ curr_t' = g.t + w + DWELL
    /\ j' = j + 1
    /\ UNCHANGED <<topology, host, app, pc, args, i, path, ncalls, probe>>

\* (w and g are bound by \E over one-element sets, so that each is computed
\* once per step)
\* variant: the conflict check passes over the reservations of the calling
\* train
EdgeGreedyIgnoresOwn ==
    /\ pc = "edge" /\ HasEdge /\ mode = "GREEDY"
    /\ \E w \in {edge_weight(weight, edge_u, edge_v)} :
       \E others \in {[k \in {x \in DOMAIN reservations :
                                  \E n \in 1..Len(reservations[x]) :
                                      reservations[x][n][3] # train_id} |->
                         SelectSeq(reservations[k], LAMBDA r : r[3] # train_id)]} :
       \E g \in {greedy_wait(others, edge_u, edge_v, curr_t, w, conflicts_avoided)} :
           /\ g.done
           /\ reservations' = reserve(reservations, edge_u, edge_v, g.t, g.t + w, train_id)
           /\ all_events' = Append(all_events,
                                   ScheduleEvent(train_id, edge_u, edge_v, g.t, g.t + w, color))
           /\ conflicts_avoided' = g.c
           /\ curr_t' = g.t + w
    /\ j' = j + 1
    /\ UNCHANGED <<topology, host, app, pc, args, i, path, ncalls, probe>>

EdgeGreedy ==
    /\ pc = "edge" /\ HasEdge /\ mode = "GREEDY"
    /\ \E w \in {edge_weight(weight, edge_u, edge_v)} :
       \E g \in {greedy_wait(reservations, edge_u, edge_v, curr_t, w, conflicts_avoided)} :
           /\ g.done
           /\ reservations' = reserve(reservations, edge_u, edge_v, g.t, g.t + w, train_id)
           /\ all_events' = Append(all_events,
                                   ScheduleEvent(train_id, edge_u, edge_v, g.t, g.t + w, color))
           /\ conflicts_avoided' = g.c
           /\ curr_t' = g.t + w
    /\ j' = j + 1
    /\ UNCHANGED <<topology, host, app, pc, args, i, path, ncalls, probe>>

\* variant: an aborted probe leaves its last attempt time in the cursor
EdgeCspAbortMovesCursor ==
    /\ pc = "edge" /\ HasEdge /\ mode = "CSP"
    /\ \E w \in {edge_weight(weight, edge_u, edge_v)} :
       \E r \in {csp_probe(reservations, edge_u, edge_v, curr_t, w, conflicts_avoided)} :
           /\ r.status # "probing"
           /\ conflicts_avoided' = r.c
           /\ IF r.status = "found"
              THEN /\ reservations' = reserve(reservations, edge_u, edge_v, r.t, r.t + w, train_id)
                   /\ all_events' = Append(all_events,
                                       ScheduleEvent(train_id, edge_u, edge_v, r.t, r.t + w, color))
                   /\ curr_t' = r.t + w
              ELSE /\ curr_t' = r.t
                   /\ UNCHANGED <<reservations, all_events>>
    /\ j' = j + 1
    /\ UNCHANGED <<topology, host, app, pc, args, i, path, ncalls, probe>>

EdgeCsp ==
    /\ pc = "edge" /\ HasEdge /\ mode = "CSP"
    /\ \E w \in {edge_weight(weight, edge_u, edge_v)} :
       \E r \in {csp_probe(reservations, edge_u, edge_v, curr_t, w, conflicts_avoided)} :
           /\ r.status # "probing"
           /\ conflicts_avoided' = r.c
           /\ IF r.status = "found"
              THEN /\ reservations' = reserve(reservations, edge_u, edge_v, r.t, r.t + w, train_id)
                   /\ all_events' = Append(all_events,
                                       ScheduleEvent(train_id, edge_u, edge_v, r.t, r.t + w, color))
                   /\ curr_t' = r.t + w
              ELSE UNCHANGED <<reservations, all_events, curr_t>>
    /\ j' = j + 1
    /\ UNCHANGED <<topology, host, app, pc, args, i, path, ncalls, probe>>

\* variant: each leg is planned from the requested start time again
EndLegRestartsCursor ==
    /\ pc = "edge" /\ ~HasEdge
    /\ curr_t' = start_time + DWELL
    /\ i' = i + 1
    /\ pc' = "leg"
    /\ UNCHANGED <<topology, host, app, reservations, args, path, j, conflicts_avoided,
                   all_events, ncalls, probe>>

\* after the segments of a leg: curr_t += 5
EndLeg ==
    /\ pc = "edge" /\ ~HasEdge
    /\ curr_t' = curr_t + DWELL
    /\ i' = i + 1
    /\ pc' = "leg"
    /\ UNCHANGED <<topology, host, app, reservations, args, path, j, conflicts_avoided,
                   all_events, ncalls, probe>>

\* return (all_events, conflicts_avoided, dt)
Return ==
    /\ pc = "leg" /\ ~HasLeg
    /\ pc' = "idle"
    /\ UNCHANGED <<topology, host, app, reservations, args, locals, ncalls, probe>>

Cleanup(t) ==
    /\ pc = "idle"
    /\ reservations' = cleanup_old_reservations(reservations, t)
    /\ UNCHANGED <<topology, host, app, pc, args, locals, ncalls, probe>>

\* Scheduler.reset: self.reservations.clear()
Reset ==
    /\ pc = "idle"
    /\ reservations' = reset(reservations)
    /\ UNCHANGED <<topology, host, app, pc, args, locals, ncalls, probe>>

Next ==
    \/ \E tid \in TrainIds, st \in StopLists, c \in Colors, t0 \in StartTimes, m \in Modes :
          Call(tid, st, c, t0, m)
    \/ SkipLeg
    \/ BeginLeg
    \/ EdgeGreedy
    \/ EdgeCsp
    \/ EndLeg
    \/ Return
    \/ \E t \in CleanupTimes : Cleanup(t)
    \/ Reset

Spec == Init /\ [][Next]_vars

\* schedule_route is straight-line code run by one thread: once called, its
\* next statement is always executed.  Calls, cleanups and resets come from
\* the application and may stop coming.
SpecFair ==
    Init /\ [][Next]_vars
         /\ WF_vars(SkipLeg \/ BeginLeg \/ EdgeGreedy \/ EdgeCsp \/ EndLeg \/ Return)

----------------------------------------------------------------------------
(* schedule_route as one call: the value it returns and the table it       *)
(* leaves, for the callers that run it to completion inside one of their   *)
(* own steps.  The state of the call is st = [res, t, c, ev]: the table,   *)
(* curr_t, conflicts_avoided and all_events.                               *)

\* the body of `for j in range(len(path) - 1)` for the n-th segment of q
route_edge(wt, st, q, n, tid, col, m) ==
    LET u == q[n]
        v == q[n + 1]
        w == edge_weight(wt, u, v)
    IN  IF m = "GREEDY"
        THEN CHOOSE x \in
                 { [res |-> reserve(st.res, u, v, g.t, g.t + w, tid),
                    t |-> g.t + w, c |-> g.c,
                    ev |-> Append(st.ev, ScheduleEvent(tid, u, v, g.t, g.t + w, col))]
                   : g \in {greedy_wait(st.res, u, v, st.t, w, st.c)} } : TRUE
        ELSE CHOOSE x \in
                 { IF r.status = "found"
                   THEN [res |-> reserve(st.res, u, v, r.t, r.t + w, tid),
                         t |-> r.t + w, c |-> r.c,
                         ev |-> Append(st.ev, ScheduleEvent(tid, u, v, r.t, r.t + w, col))]
                   ELSE [st EXCEPT !.c = r.c]
                   : r \in {csp_probe(st.res, u, v, st.t, w, st.c)} } : TRUE

\* the segments n, n+1, ... of the path q, in order
RECURSIVE route_edges(_, _, _, _, _, _, _)
route_edges(wt, st, q, n, tid, col, m) ==
    IF n > Len(q) - 1 THEN st
    ELSE CHOOSE x \in { route_edges(wt, s1, q, n + 1, tid, col, m)
                         : s1 \in {route_edge(wt, st, q, n, tid, col, m)} } : TRUE

\* the legs n, n+1, ... of the stop list; a set, one element per choice of
\* shortest paths
RECURSIVE route_legs(_, _, _, _, _, _, _, _)
route_legs(p, wt, st, st_list, n, tid, col, m) ==
    IF n > Len(st_list) - 1 THEN {st}
    ELSE UNION { IF Len(q) < 2
                 THEN route_legs(p, wt, st, st_list, n + 1, tid, col, m)
                 ELSE UNION { route_legs(p, wt, [s1 EXCEPT !.t = @ + DWELL],
                                         st_list, n + 1, tid, col, m)
                              : s1 \in {route_edges(wt, st, q, 1, tid, col, m)} }
                 : q \in get_path(p, wt, st_list[n], st_list[n + 1]) }

\* schedule_route(train_id, stops, color, start_time, mode) on the table res
schedule_route(p, wt, res, tid, st_list, col, t0, m) ==
    UNION { route_legs(p, wt, st, st_list, 1, tid, col, m)
            : st \in {[res |-> res, t |-> t0, c |-> 0, ev |-> <<>>]} }

----------------------------------------------------------------------------
(* The table operations called directly, with arbitrary arguments *)

TablePairs == {<<"A", "B">>, <<"B", "A">>, <<"A", "C">>}

TableTimes == {0, 5, 20}

Margins == {0, DEFAULT_MARGIN, GREEDY_STEP}

RECURSIVE table_size_of(_, _)
table_size_of(res, keys) ==
    IF keys = {} THEN 0
    ELSE LET k == CHOOSE x \in keys : TRUE
         IN  Len(res[k]) + table_size_of(res, keys \ {k})

table_size(res) == table_size_of(res, DOMAIN res)

\* self._reserve(u, v, start, end, train_id)
TReserve(u, v, s, e, tid) ==
    /\ pc = "idle"
    /\ table_size(reservations) < MaxTableSize
    /\ reservations' = reserve(reservations, u, v, s, e, tid)
    /\ probe' = NoProbe
    /\ UNCHANGED <<topology, host, app, pc, args, locals, ncalls>>

\* self._check_conflict(u, v, start, end, margin); probe holds the returned
\* value until the caller's next operation on the table
TCheck(u, v, s, e, m) ==
    /\ pc = "idle"
    /\ ~probe.called
    /\ probe' = [called |-> TRUE, u |-> u, v |-> v, start |-> s, end |-> e, margin |-> m,
                 result |-> check_conflict(reservations, u, v, s, e, m)]
    /\ UNCHANGED <<topology, host, app, reservations, pc, args, locals, ncalls>>

NextTable ==
    \/ \E uv \in TablePairs, s \in TableTimes, e \in TableTimes, tid \in TrainIds :
          s < e /\ TReserve(uv[1], uv[2], s, e, tid)
    \/ \E uv \in TablePairs, s \in TableTimes, e \in TableTimes, m \in Margins :
          TCheck(uv[1], uv[2], s, e, m)

SpecTable == Init /\ [][NextTable]_vars

----------------------------------------------------------------------------
(* A host that runs schedule_route for different trains on parallel        *)
(* threads.  Each thread handles one segment of its route: it evaluates    *)
(* the conflict test of its loop (one evaluation per step) and reserves    *)
(* after the test has returned false.  With atomic = TRUE the test that    *)
(* returns false and the reservation form one critical section; with       *)
(* atomic = FALSE other threads may run between them.                      *)

\* the directions in which a thread travels the track A-B
RaceLegs == {<<"A", "B">>, <<"B", "A">>}

\* a thread at the entry of the loop of its mode for the segment u -> v
thread_entry(u, v, t0, m) ==
    [pc |-> "check", u |-> u, v |-> v, start_time |-> t0, mode |-> m,
     curr_t |-> t0, conflicts_avoided |-> 0, booked |-> FALSE]

InitRace ==
    /\ InitScheduler
    /\ InitApp
    /\ atomic \in BOOLEAN
    /\ \E l1 \in RaceLegs, l2 \in RaceLegs, t1 \in StartTimes, t2 \in StartTimes,
          m1 \in Modes, m2 \in Modes :
          threads = (1 :> thread_entry(l1[1], l1[2], t1, m1))
                    @@ (2 :> thread_entry(l2[1], l2[2], t2, m2))

\* one evaluation of the loop of thread tid, as a loop state of its mode
thread_iter(res, w, th) ==
    IF th.mode = "GREEDY"
    THEN LET g == greedy_iter(res, th.u, th.v, w,
                              [t |-> th.curr_t, c |-> th.conflicts_avoided, done |-> FALSE])
         IN  [t |-> g.t, c |-> g.c,
              status |-> IF g.done THEN "found" ELSE "probing"]
    ELSE csp_iter(res, th.u, th.v, th.start_time, w,
                  [t |-> th.curr_t, c |-> th.conflicts_avoided, status |-> "probing"])

\* variant: the reservation is never made in the step of the test
ThreadCheckUnlocked(tid) ==
    /\ pc = "idle"
    /\ tid \in DOMAIN threads
    /\ threads[tid].pc = "check"
    /\ \E th \in {threads[tid]} :
       \E w \in {edge_weight(weight, th.u, th.v)} :
       \E r \in {thread_iter(reservations, w, th)} :
           /\ threads' = [threads EXCEPT ![tid] =
                   [th EXCEPT !.curr_t = r.t, !.conflicts_avoided = r.c,
                              !.pc = IF r.status = "probing" THEN "check"
                                     ELSE IF r.status = "found" THEN "reserve"
                                     ELSE "done"]]
           /\ UNCHANGED reservations
    /\ UNCHANGED <<topology, app, pc, args, locals, ncalls, probe, atomic>>

\* thread tid evaluates `self._check_conflict(u, v, t, t + weight)` once; when
\* the test is false and the host serializes, it reserves in the same step
ThreadCheck(tid) ==
    /\ pc = "idle"
    /\ tid \in DOMAIN threads
    /\ threads[tid].pc = "check"
    /\ \E th \in {threads[tid]} :
       \E w \in {edge_weight(weight, th.u, th.v)} :
       \E r \in {thread_iter(reservations, w, th)} :
           IF r.status = "found" /\ atomic
           THEN /\ reservations' = reserve(reservations, th.u, th.v, r.t, r.t + w, tid)
                /\ threads' = [threads EXCEPT ![tid] =
                        [th EXCEPT !.curr_t = r.t + w, !.conflicts_avoided = r.c,
                                   !.pc = "done", !.booked = TRUE]]
           ELSE /\ threads' = [threads EXCEPT ![tid] =
                        [th EXCEPT !.curr_t = r.t, !.conflicts_avoided = r.c,
                                   !.pc = IF r.status = "probing" THEN "check"
                                          ELSE IF r.status = "found" THEN "reserve"
                                          ELSE "done"]]
                /\ UNCHANGED reservations
    /\ UNCHANGED <<topology, app, pc, args, locals, ncalls, probe, atomic>>

\* thread tid runs `self._reserve(u, v, t, t + weight, train_id)` and moves
\* its cursor to the booked end
ThreadReserve(tid) ==
    /\ pc = "idle"
    /\ tid \in DOMAIN threads
    /\ threads[tid].pc = "reserve"
    /\ \E th \in {threads[tid]} :
       \E w \in {edge_weight(weight, th.u, th.v)} :
           /\ reservations' = reserve(reservations, th.u, th.v, th.curr_t, th.curr_t + w, tid)
           /\ threads' = [threads EXCEPT ![tid] =
                   [th EXCEPT !.curr_t = th.curr_t + w, !.pc = "done", !.booked = TRUE]]
    /\ UNCHANGED <<topology, app, pc, args, locals, ncalls, probe, atomic>>

NextRace ==
    \/ \E tid \in TrainIds : ThreadCheck(tid)
    \/ \E tid \in TrainIds : ThreadReserve(tid)

SpecRace == InitRace /\ [][NextRace]_vars

----------------------------------------------------------------------------
(* The application: App.start_simulation plans every configured train up   *)
(* to the horizon, App.update_simulation is one tick of the simulation.    *)
(* Dictionaries are sequences in insertion order.  An agent's              *)
(* current_event is <<>> for None and <<event>> otherwise.  The drawing    *)
(* state (visual_pos, the widgets) and the wall-clock scheduling time are  *)
(* left out.                                                               *)

MaxSimTime == 510

\* scheduling_ops is never reset: a simulation is started only while it is
\* below this bound
MaxOpsAtStart == 1

PLAN_HORIZON == 1440
PLAN_GAP == 100
REPLAN_DELAY == 100
CLEANUP_PERIOD == 500
DELAY_THRESHOLD == 10

RouteConfig(tid, st_list, col, delay) ==
    [train_id |-> tid, stops |-> st_list, color |-> col, start_delay |-> delay]

TrainAgent(id, col, node) ==
    [id |-> id, color |-> col, current_node |-> node,
     schedule_queue |-> <<>>, current_event |-> <<>>, status |-> "WAITING",
     total_wait |-> 0, total_journey_time |-> 0, trips_completed |-> 0,
     delay_accumulated |-> 0]

Red == <<255, 0, 0>>

\* the train configurations entered in the editor: two trains that meet on
\* A-B; a train planned past the horizon, which re-plans from the first tick,
\* listed before a train planned from 0; a train without stops and a round
\* trip that starts late; a train whose only leg has no path
SimConfigs ==
    { << RouteConfig(1, <<"A", "B">>, Red, 0), RouteConfig(2, <<"B", "A">>, Red, 30) >>,
      << RouteConfig(2, <<"B", "A">>, Red, 1440), RouteConfig(1, <<"A", "B">>, Red, 0) >>,
      << RouteConfig(1, <<>>, Red, 0), RouteConfig(2, <<"A", "B", "A">>, Red, 1440) >>,
      << RouteConfig(1, <<"A", "D">>, Red, 0), RouteConfig(2, <<"A", "B">>, Red, 200) >> }

InitSim ==
    /\ InitScheduler
    /\ threads = NoThreads
    /\ atomic = TRUE
    /\ app_mode = "EDITOR"
    /\ algorithm_mode \in Modes
    /\ sim_time = 0
    /\ train_route_configs \in SimConfigs
    /\ train_agents = <<>>
    /\ planned_events = <<>>
    /\ total_collisions_avoided = 0
    /\ scheduling_ops = 0

\* self.train_route_configs[tid]
config_of(cfgs, tid) == cfgs[CHOOSE n \in 1..Len(cfgs) : cfgs[n].train_id = tid]

\* while curr_plan_time < 1440: ... on the state st = [res, queue, planned, t]
RECURSIVE plan_ahead(_, _, _, _, _)
plan_ahead(p, wt, st, cfg, m) ==
    IF ~(st.t < PLAN_HORIZON) THEN {st}
    ELSE UNION { IF o.ev = <<>>
                 THEN {[st EXCEPT !.res = o.res]}
                 ELSE plan_ahead(p, wt,
                                 [res |-> o.res,
                                  queue |-> st.queue \o o.ev,
                                  planned |-> st.planned \o o.ev,
                                  t |-> o.ev[Len(o.ev)].end_time + PLAN_GAP],
                                 cfg, m)
                 : o \in schedule_route(p, wt, st.res, cfg.train_id, cfg.stops, cfg.color,
                                        st.t, m) }

\* for tid, cfg in self.train_route_configs.items(): ... from the n-th
\* configuration on, on the state S = [res, agents, planned]
RECURSIVE start_agents(_, _, _, _, _, _, _)
start_agents(p, wt, S, cfgs, n, now, m) ==
    IF n > Len(cfgs) THEN {S}
    ELSE IF cfgs[n].stops = <<>> THEN start_agents(p, wt, S, cfgs, n + 1, now, m)
    ELSE UNION { start_agents(p, wt,
                     [res |-> r.res,
                      agents |-> Append(S.agents,
                                    [TrainAgent(cfgs[n].train_id, cfgs[n].color, cfgs[n].stops[1])
                                       EXCEPT !.schedule_queue = r.queue]),
                      planned |-> r.planned],
                     cfgs, n + 1, now, m)
                 : r \in plan_ahead(p, wt,
                                    [res |-> S.res, queue |-> <<>>, planned |-> S.planned,
                                     t |-> now + cfgs[n].start_delay],
                                    cfgs[n], m) }

\* App.start_simulation (the START button in the editor); reset_sim runs first
StartSimulation ==
    /\ pc = "idle"
    /\ app_mode = "EDITOR"
    /\ train_route_configs # <<>>
    /\ scheduling_ops < MaxOpsAtStart
    /\ \E S \in start_agents(pos, weight,
                              [res |-> reset(reservations), agents |-> <<>>, planned |-> <<>>],
                              train_route_configs, 1, 0, algorithm_mode) :
          /\ reservations' = S.res
          /\ train_agents' = S.agents
          /\ planned_events' = S.planned
    /\ sim_time' = 0
    /\ total_collisions_avoided' = 0
    /\ app_mode' = "RUNNING"
    /\ UNCHANGED <<topology, host, pc, args, locals, ncalls, probe,
                   algorithm_mode, train_route_configs, scheduling_ops>>

\* App.schedule_agent_route(tid, start_time) for the n-th agent, on the state
\* S = [res, agents, tca, ops] of the tick
schedule_agent_route(p, wt, S, n, cfgs, start, m) ==
    LET agent == S.agents[n]
        cfg == config_of(cfgs, agent.id)
    IN  { [res |-> o.res,
           agents |-> [S.agents EXCEPT ![n] =
                          [agent EXCEPT
                              !.schedule_queue = @ \o o.ev,
                              !.delay_accumulated =
                                  IF o.ev # <<>> /\ agent.current_event = <<>>
                                  THEN o.ev[1].start_time - start ELSE @]],
           tca |-> S.tca + o.c,
           ops |-> S.ops + 1]
          : o \in schedule_route(p, wt, S.res, agent.id, cfg.stops, cfg.color, start, m) }

\* variant: the head of the queue is made active whatever its start time
pop_event_eager(a, now) ==
    IF a.current_event = <<>> /\ a.schedule_queue # <<>>
    THEN [a EXCEPT !.current_event = <<Head(a.schedule_queue)>>,
                   !.schedule_queue = Tail(a.schedule_queue)]
    ELSE a

\* variant: the head of the queue is made active only at the tick of its
\* start time
pop_event_on_time(a, now) ==
    IF /\ a.current_event = <<>>
       /\ a.schedule_queue # <<>>
       /\ now = Head(a.schedule_queue).start_time
    THEN [a EXCEPT !.current_event = <<Head(a.schedule_queue)>>,
                   !.schedule_queue = Tail(a.schedule_queue)]
    ELSE a

\* 1. if not agent.current_event and agent.schedule_queue: pop the head when
\* its start time has come
pop_event(a, now) ==
    IF /\ a.current_event = <<>>
       /\ a.schedule_queue # <<>>
       /\ now >= Head(a.schedule_queue).start_time
    THEN [a EXCEPT !.current_event = <<Head(a.schedule_queue)>>,
                   !.schedule_queue = Tail(a.schedule_queue)]
    ELSE a

\* variant: the event completes at the tick of its end time
update_status_early(a, now) ==
    IF a.current_event # <<>>
    THEN LET evt == a.current_event[1]
         IN  IF now < evt.end_time
             THEN [a EXCEPT !.total_journey_time = @ + 1, !.status = "MOVING"]
             ELSE [a EXCEPT !.total_journey_time = @ + 1,
                            !.status = "WAITING",
                            !.current_node = evt.target,
                            !.current_event = <<>>,
                            !.trips_completed = @ + 1]
    ELSE IF a.schedule_queue # <<>>
         THEN IF /\ Head(a.schedule_queue).start_time > now + DELAY_THRESHOLD
                 /\ a.delay_accumulated > DELAY_THRESHOLD
              THEN [a EXCEPT !.status = "DELAYED"]
              ELSE [a EXCEPT !.status = "WAITING", !.total_wait = @ + 1]
         ELSE [a EXCEPT !.status = "ARRIVED"]

\* variant: an agent without an active event re-plans even when events are
\* still queued
update_status_replans_early(a, now) ==
    IF a.current_event # <<>>
    THEN LET evt == a.current_event[1]
         IN  IF now <= evt.end_time
             THEN [a EXCEPT !.total_journey_time = @ + 1, !.status = "MOVING"]
             ELSE [a EXCEPT !.total_journey_time = @ + 1,
                            !.status = "WAITING",
                            !.current_node = evt.target,
                            !.current_event = <<>>,
                            !.trips_completed = @ + 1]
    ELSE [a EXCEPT !.status = "ARRIVED"]

\* 2. status of the agent a (after step 1) at tick now; "ARRIVED" is the
\* branch that goes on to schedule_agent_route
update_status(a, now) ==
    IF a.current_event # <<>>
    THEN LET evt == a.current_event[1]
         IN  IF now <= evt.end_time
             THEN [a EXCEPT !.total_journey_time = @ + 1, !.status = "MOVING"]
             ELSE [a EXCEPT !.total_journey_time = @ + 1,
                            !.status = "WAITING",
                            !.current_node = evt.target,
                            !.current_event = <<>>,
                            !.trips_completed = @ + 1]
    ELSE IF a.schedule_queue # <<>>
         THEN IF /\ Head(a.schedule_queue).start_time > now + DELAY_THRESHOLD
                 /\ a.delay_accumulated > DELAY_THRESHOLD
              THEN [a EXCEPT !.status = "DELAYED"]
              ELSE [a EXCEPT !.status = "WAITING", !.total_wait = @ + 1]
         ELSE [a EXCEPT !.status = "ARRIVED"]

\* for tid, agent in self.train_agents.items(): ... from the n-th agent on
RECURSIVE tick_agents(_, _, _, _, _, _, _)
tick_agents(p, wt, S, n, cfgs, now, m) ==
    IF n > Len(S.agents) THEN {S}
    ELSE UNION { IF a.status = "ARRIVED"
                 THEN UNION { tick_agents(p, wt, S2, n + 1, cfgs, now, m)
                              : S2 \in UNION { schedule_agent_route(p, wt, S1, n, cfgs,
                                                                    now + REPLAN_DELAY, m)
                                               : S1 \in {[S EXCEPT !.agents[n] = a]} } }
                 ELSE UNION { tick_agents(p, wt, S1, n + 1, cfgs, now, m)
                              : S1 \in {[S EXCEPT !.agents[n] = a]} }
                 : a \in {update_status(pop_event(S.agents[n], now), now)} }

\* variant: the cleanup runs ten times as often
cleanup_due_every_50(now) == now % 50 = 0

\* if self.sim_time % 500 == 0
cleanup_due(now) == now % CLEANUP_PERIOD = 0

\* App.update_simulation: one tick
Tick ==
    /\ pc = "idle"
    /\ app_mode = "RUNNING"
    /\ sim_time < MaxSimTime
    /\ sim_time' = sim_time + 1
    /\ \E res1 \in {IF cleanup_due(sim_time + 1)
                     THEN cleanup_old_reservations(reservations, sim_time + 1)
                     ELSE reservations} :
       \E S \in tick_agents(pos, weight,
                             [res |-> res1, agents |-> train_agents,
                              tca |-> total_collisions_avoided, ops |-> scheduling_ops],
                             1, train_route_configs, sim_time + 1, algorithm_mode) :
          /\ reservations' = S.res
          /\ train_agents' = S.agents
          /\ total_collisions_avoided' = S.tca
          /\ scheduling_ops' = S.ops
    /\ UNCHANGED <<topology, host, pc, args, locals, ncalls, probe,
                   app_mode, algorithm_mode, train_route_configs, planned_events>>

\* App.reset_sim (the STOP button while running)
ResetSim ==
    /\ pc = "idle"
    /\ app_mode = "RUNNING"
    /\ app_mode' = "EDITOR"
    /\ sim_time' = 0
    /\ train_agents' = <<>>
    /\ reservations' = reset(reservations)
    /\ planned_events' = <<>>
    /\ total_collisions_avoided' = 0
    /\ UNCHANGED <<topology, host, pc, args, locals, ncalls, probe,
                   algorithm_mode, train_route_configs, scheduling_ops>>

\* the ALGO button, pressed in the editor
ToggleAlgorithm ==
    /\ pc = "idle"
    /\ app_mode = "EDITOR"
    /\ algorithm_mode' = IF algorithm_mode = "CSP" THEN "GREEDY" ELSE "CSP"
    /\ UNCHANGED <<topology, host, reservations, pc, args, locals, ncalls, probe,
                   app_mode, sim_time, train_route_configs, train_agents, planned_events,
                   total_collisions_avoided, scheduling_ops>>

NextSim ==
    \/ StartSimulation
    \/ Tick
    \/ ResetSim
    \/ ToggleAlgorithm

SpecSim == InitSim /\ [][NextSim]_vars

\* the run loop calls update_simulation in every frame while the mode is
\* RUNNING: ticks keep coming until the simulation is stopped
SpecSimFair == InitSim /\ [][NextSim]_vars /\ WF_vars(Tick)

----------------------------------------------------------------------------
(* The topology edited in the application: src/models.py RailwayGraph and the
   editor handlers of App.run *)

\* the places a station can be put at: a rhombus with the corners A and C
\* 18 px apart and B and D above and below the middle, so that each side has
\* weight 1, the diagonal A-C weight 3 and the diagonal B-D weight 1.  B can
\* also be put far away, which leaves its tracks with the weights they got.
EditorPlaces ==
    [n \in {"A", "B", "C", "D"} |->
        IF n = "A" THEN {<<0, 10>>}
        ELSE IF n = "B" THEN {<<9, 11>>, <<100, 10>>}
        ELSE IF n = "C" THEN {<<18, 10>>}
        ELSE {<<9, 9>>}]

\* the stations named in calls; Z is never registered
QueryNames == {"A", "B", "C", "D", "Z"}

\* the path queries: from A to every name, back from C, across from B, and
\* from the unregistered name
Queries == {<<"A", b>> : b \in QueryNames} \cup {<<"C", "A">>, <<"B", "D">>, <<"Z", "A">>}

\* self.graph.graph.remove_node(n); del self.graph.cached_pos[n]
remove_station_pos(p, n) == [m \in (DOMAIN p) \ {n} |-> p[m]]

\* variant: the tracks of the removed station stay in the graph
remove_station_tracks_kept(w, n) == w

\* networkx remove_node: the node goes together with its incident edges
remove_station_tracks(w, n) == [k \in {e \in DOMAIN w : e[1] # n /\ e[2] # n} |-> w[k]]

\* cfg.stops = [s for s in cfg.stops if s != clicked_node], for every config
remove_stop(cfgs, n) ==
    [c \in DOMAIN cfgs |-> [cfgs[c] EXCEPT !.stops = SelectSeq(@, LAMBDA x : x # n)]]

\* self.graph.graph.remove_edge(u, v)
remove_track(w, u, v) == [k \in (DOMAIN w) \ {graph_edge(u, v)} |-> w[k]]

\* load_scenario_empty: a new RailwayGraph without stations and tracks
InitGraph ==
    /\ pos = EmptyTable
    /\ weight = EmptyTable
    /\ reservations = EmptyTable
    /\ pc = "idle"
    /\ train_id = 0 /\ stops = <<>> /\ color = <<0, 0, 0>> /\ start_time = 0 /\ mode = "GREEDY"
    /\ i = 0 /\ path = <<>> /\ j = 0
    /\ curr_t = 0
    /\ conflicts_avoided = 0
    /\ all_events = <<>>
    /\ ncalls = 0
    /\ probe = NoProbe
    /\ threads = NoThreads /\ atomic = TRUE
    /\ InitApp

\* RETURN in the CONFIG tab: add_station(name, x, y), also for a name that
\* is already registered
AddStation(n, xy) ==
    /\ pos' = add_station(pos, n, xy[1], xy[2])
    /\ UNCHANGED <<weight, host, app, reservations, pc, args, locals, ncalls, probe>>

\* add_track(u, v), from the editor or from a scenario loader
AddTrack(u, v) ==
    /\ u # v
    /\ weight' = add_track(pos, weight, u, v)
    /\ UNCHANGED <<pos, host, app, reservations, pc, args, locals, ncalls, probe>>

\* right click on a station in the editor
RemoveStation(n) ==
    /\ app_mode = "EDITOR"
    /\ n \in DOMAIN pos
    /\ pos' = remove_station_pos(pos, n)
    /\ weight' = remove_station_tracks(weight, n)
    /\ train_route_configs' = remove_stop(train_route_configs, n)
    /\ UNCHANGED <<host, reservations, pc, args, locals, ncalls, probe,
                   app_mode, algorithm_mode, sim_time, train_agents, planned_events,
                   total_collisions_avoided, scheduling_ops>>

\* right click on a track in the editor; a track of length 0 is passed over
\* by the hit test (`if l2 == 0: continue`)
RemoveTrack(u, v) ==
    /\ app_mode = "EDITOR"
    /\ graph_edge(u, v) \in DOMAIN weight
    /\ pos[u] # pos[v]
    /\ weight' = remove_track(weight, u, v)
    /\ UNCHANGED <<pos, host, app, reservations, pc, args, locals, ncalls, probe>>

\* get_path(a, b); the query is kept in stops and the answer in path
GetPath(a, b) ==
    /\ stops' = <<a, b>>
    /\ path' \in get_path(pos, weight, a, b)
    /\ UNCHANGED <<topology, host, app, reservations, pc, train_id, color, start_time,
                   mode, i, j, curr_t, conflicts_avoided, all_events, ncalls, probe>>

NextGraph ==
    \/ \E n \in DOMAIN EditorPlaces : \E xy \in EditorPlaces[n] : AddStation(n, xy)
    \/ \E u, v \in QueryNames : AddTrack(u, v)
    \/ \E n \in DOMAIN EditorPlaces : RemoveStation(n)
    \/ \E u, v \in DOMAIN EditorPlaces : RemoveTrack(u, v)
    \/ \E q \in Queries : GetPath(q[1], q[2])

SpecGraph == InitGraph /\ [][NextGraph]_vars

----------------------------------------------------------------------------
(* Properties *)

\* two stored reservations conflict under margin m
Conflicting(a, b, m) == a[1] < b[2] + m /\ a[2] + m > b[1]

\* the list stored for the segment between u and v, empty when there is none
Booked(res, u, v) ==
    IF get_edge_key(u, v) \in DOMAIN res THEN res[get_edge_key(u, v)] ELSE <<>>

\* some reservation stored for the segment between u and v overlaps
\* [start, end] under margin m
SomeOverlap(res, u, v, start, end, m) ==
    \E n \in 1..Len(Booked(res, u, v)) :
        start < Booked(res, u, v)[n][2] + m /\ end + m > Booked(res, u, v)[n][1]

\* C1: after any sequence of schedule_route calls, GREEDY or CSP, with
\* cleanups in between, no two distinct reservations of one edge key conflict
\* under the margin the scheduler's checks use (15): no segment is double
\* booked.
NoDoubleBooking ==
    \A k \in DOMAIN reservations :
        \A a, b \in 1..Len(reservations[k]) :
            a # b => ~Conflicting(reservations[k][a], reservations[k][b], DEFAULT_MARGIN)

\* a second call has returned after waiting for a slot, and some segment
\* holds two reservations
NoDoubleBookingWitness ==
    /\ pc = "idle" /\ ncalls = 2 /\ conflicts_avoided > 0
    /\ \E k \in DOMAIN reservations : Len(reservations[k]) >= 2

GreedyEdgeStep == pc = "edge" /\ HasEdge /\ mode = "GREEDY"

\* the table res2 is res with <<s, e, tid>> appended to the list of the
\* segment between u and v and nothing else changed
AppendedOnly(res, res2, u, v, s, e, tid) ==
    /\ DOMAIN res2 = (DOMAIN res) \cup {get_edge_key(u, v)}
    /\ Booked(res2, u, v) = Append(Booked(res, u, v), <<s, e, tid>>)
    /\ \A k \in DOMAIN res : k # get_edge_key(u, v) => res2[k] = res[k]

\* C4: in GREEDY mode each segment of a leg is booked at curr_t + 20*k for
\* the smallest k >= 0 at which the conflict check is false;
\* conflicts_avoided grows by exactly k, exactly one event and one reservation
\* [curr_t + 20k, curr_t + 20k + weight] are produced, and the cursor becomes
\* the booked end.
GreedyBooksFirstFreeSlot ==
    [][GreedyEdgeStep =>
        LET w == weight[get_edge_key(edge_u, edge_v)]
            s == curr_t' - w
            k == (s - curr_t) \div 20
        IN  /\ k >= 0 /\ s = curr_t + 20 * k
            /\ ~SomeOverlap(reservations, edge_u, edge_v, s, s + w, DEFAULT_MARGIN)
            /\ \A n \in 0..(k - 1) :
                  SomeOverlap(reservations, edge_u, edge_v,
                              curr_t + 20 * n, curr_t + 20 * n + w, DEFAULT_MARGIN)
            /\ conflicts_avoided' = conflicts_avoided + k
            /\ all_events' = Append(all_events,
                                    ScheduleEvent(train_id, edge_u, edge_v, s, s + w, color))
            /\ AppendedOnly(reservations, reservations', edge_u, edge_v, s, s + w, train_id)
            /\ pc' = "edge" /\ j' = j + 1
      ]_vars

\* a GREEDY call has booked a segment after waiting at least twice
GreedyBooksWitness ==
    /\ pc = "edge" /\ mode = "GREEDY" /\ j >= 1
    /\ conflicts_avoided >= 2
    /\ Len(all_events) >= 1
    /\ all_events[Len(all_events)].end_time = curr_t

\* C5 as stated: a GREEDY booking [s, s+w] is made only if no reservation of
\* the segment satisfies s < r_end + 20 and s + w + 20 > r_start.
GreedyMargin20 ==
    [][GreedyEdgeStep =>
        LET w == weight[get_edge_key(edge_u, edge_v)]
            s == curr_t' - w
        IN  ~SomeOverlap(reservations, edge_u, edge_v, s, s + w, 20)
      ]_vars

\* C5 (amended): GREEDY tests conflicts with margin 15, the default of
\* _check_conflict: a GREEDY booking [s, s+w] is made only if no reservation
\* of the segment satisfies s < r_end + 15 and s + w + 15 > r_start, so any
\* two reservations of one segment are at least 15 ticks apart.
GreedyMargin15 ==
    /\ [][GreedyEdgeStep =>
            LET w == weight[get_edge_key(edge_u, edge_v)]
                s == curr_t' - w
            IN  ~SomeOverlap(reservations, edge_u, edge_v, s, s + w, 15)
         ]_vars
    /\ [](\A k \in DOMAIN reservations :
             \A a, b \in 1..Len(reservations[k]) :
                 a < b => \/ reservations[k][b][1] >= reservations[k][a][2] + 15
                          \/ reservations[k][a][1] >= reservations[k][b][2] + 15)

\* a GREEDY call has booked a segment 15 to 19 ticks after an earlier
\* reservation of it ends
GreedyMarginWitness ==
    /\ pc = "idle" /\ mode = "GREEDY" /\ Len(all_events) >= 1
    /\ \E k \in DOMAIN reservations :
          \E a, b \in 1..Len(reservations[k]) :
              /\ a < b
              /\ reservations[k][b][1] = all_events[Len(all_events)].start_time
              /\ reservations[k][b][1] - reservations[k][a][2] \in 15..19

\* the two calls of the scenario: stops [A, B], start time 0, GREEDY
ScenarioCall(tid) ==
    /\ train_id = tid /\ stops = <<"A", "B">> /\ start_time = 0 /\ mode = "GREEDY"

\* C6: with A(0,0) and B(300,0) joined by one track (weight 60) and an empty
\* table, schedule_route(1, [A,B], 0, GREEDY) returns exactly the event
\* (1, A, B, 0, 60) with 0 conflicts; schedule_route(2, [A,B], 0, GREEDY)
\* called next returns exactly one event, from 80 to 140, with 4 conflicts
\* avoided (0, 20, 40 and 60 are refused).
GreedyScenario ==
    /\ [][(GreedyEdgeStep /\ ScenarioCall(1) /\ reservations = EmptyTable) =>
            /\ all_events' = <<ScheduleEvent(1, "A", "B", 0, 60, color)>>
            /\ conflicts_avoided' = 0
            /\ reservations' = (<<"A", "B">> :> << <<0, 60, 1>> >>)
         ]_vars
    /\ [][(GreedyEdgeStep /\ ScenarioCall(2)
               /\ reservations = (<<"A", "B">> :> << <<0, 60, 1>> >>)) =>
            /\ all_events' = <<ScheduleEvent(2, "A", "B", 80, 140, color)>>
            /\ conflicts_avoided' = 4
            /\ reservations' = (<<"A", "B">> :> << <<0, 60, 1>>, <<80, 140, 2>> >>)
         ]_vars
    /\ []((pc = "idle" /\ ncalls > 0 /\ stops = <<"A", "B">>) => Len(all_events) = 1)

\* both calls of the scenario have returned
GreedyScenarioWitness ==
    /\ pc = "idle" /\ ScenarioCall(2) /\ ncalls = 2
    /\ all_events = <<ScheduleEvent(2, "A", "B", 80, 140, color)>>
    /\ conflicts_avoided = 4
    /\ reservations = (<<"A", "B">> :> << <<0, 60, 1>>, <<80, 140, 2>> >>)

\* a step of schedule_route that handles the next segment in CSP mode
CspEdgeStep == pc = "edge" /\ HasEdge /\ mode = "CSP"

\* the segment is free for a traversal that starts 10*n ticks after the cursor
CspFreeAt(n) ==
    ~SomeOverlap(reservations, edge_u, edge_v, curr_t + 10 * n,
                 curr_t + 10 * n + weight[get_edge_key(edge_u, edge_v)], DEFAULT_MARGIN)

\* C7: in CSP mode the probe tests the offsets curr_t + 10*k, k = 0, 1, 2, ...
\* in order and books the segment at the smallest one without conflict,
\* provided it is at most 5000 ticks past curr_t; conflicts_avoided grows by
\* exactly k, one event and one reservation are produced, and the cursor
\* becomes attempt_t + weight.
CspBooksFirstFreeOffset ==
    [][(CspEdgeStep /\ \E n \in 0..500 : CspFreeAt(n)) =>
        LET w == weight[get_edge_key(edge_u, edge_v)]
            s == curr_t' - w
            k == (s - curr_t) \div 10
        IN  /\ k \in 0..500 /\ s = curr_t + 10 * k
            /\ CspFreeAt(k)
            /\ \A n \in 0..(k - 1) : ~CspFreeAt(n)
            /\ conflicts_avoided' = conflicts_avoided + k
            /\ all_events' = Append(all_events,
                                    ScheduleEvent(train_id, edge_u, edge_v, s, s + w, color))
            /\ AppendedOnly(reservations, reservations', edge_u, edge_v, s, s + w, train_id)
            /\ pc' = "edge" /\ j' = j + 1
      ]_vars

\* the first segment of a CSP call was booked exactly 5000 ticks past the
\* requested start, after 500 refused offsets
CspBooksWitness ==
    /\ pc = "edge" /\ mode = "CSP" /\ i = 0 /\ j = 1
    /\ Len(all_events) = 1
    /\ all_events[1].start_time = start_time + 5000
    /\ conflicts_avoided = 500

\* C8: in CSP mode, when no offset curr_t + 10*k within 5000 ticks of curr_t
\* is free, the segment is skipped silently: no event, no reservation, the
\* cursor is left unchanged, and the call goes on with the next segment.
CspAbortSkipsEdge ==
    [][(CspEdgeStep /\ \A n \in 0..500 : ~CspFreeAt(n)) =>
        /\ all_events' = all_events
        /\ reservations' = reservations
        /\ curr_t' = curr_t
        /\ pc' = "edge" /\ j' = j + 1 /\ path' = path /\ i' = i
      ]_vars

\* a CSP call over C, B, A has returned without an event for the long
\* segment C-A but with events for the segments after it
CspAbortWitness ==
    /\ pc = "idle" /\ mode = "CSP" /\ stops = <<"C", "B", "A">>
    /\ conflicts_avoided >= 501
    /\ Len(all_events) = 2
    /\ all_events[1].source = "A" /\ all_events[1].target = "B"
    /\ all_events[2].source = "B" /\ all_events[2].target = "A"

\* C9: schedule_route with fewer than 2 stops, in either mode, returns an
\* empty event list and conflicts_avoided = 0, goes straight to its return,
\* and leaves the reservation table unchanged.
ShortStopListIsEmptyResult ==
    /\ []((pc = "idle" /\ ncalls > 0 /\ Len(stops) < 2) =>
            all_events = <<>> /\ conflicts_avoided = 0)
    /\ []((pc # "idle" /\ Len(stops) < 2) => (pc = "leg" /\ ENABLED Return))
    /\ [][((pc # "idle" \/ pc' # "idle") /\ Len(stops') < 2) =>
            reservations' = reservations]_vars

\* a call with a single stop has returned while the table holds the
\* reservations of the call before it
ShortStopListWitness ==
    /\ pc = "idle" /\ ncalls = 2 /\ Len(stops) = 1
    /\ reservations # EmptyTable
    /\ all_events = <<>>

\* the stations reachable from the set S over the tracks w
RECURSIVE reach_from(_, _)
reach_from(w, S) ==
    CHOOSE R \in { IF S2 = S THEN S ELSE reach_from(w, S2) :
                      S2 \in {S \cup {m \in Names : \E n \in S : graph_edge(n, m) \in DOMAIN w}} } :
        TRUE

\* the leg a -> b joins two different registered stations that are connected
LegHasPath(a, b) ==
    /\ a \in DOMAIN pos /\ b \in DOMAIN pos
    /\ a # b
    /\ b \in reach_from(weight, {a})

AllLegsUnreachable ==
    \A n \in 1..(Len(stops) - 1) : ~LegHasPath(stops[n], stops[n + 1])

\* C10: a leg without a path of at least 2 stations (disconnected stops, an
\* unregistered stop, two identical stops) is skipped: no event, no
\* reservation, no change of the cursor; every other leg is still scheduled;
\* a route with only such legs returns no event and 0 conflicts and leaves
\* the table unchanged.
UnreachableLegSkipped ==
    /\ [][(pc = "leg" /\ HasLeg) =>
            IF ~LegHasPath(stops[i + 1], stops[i + 2])
            THEN /\ all_events' = all_events
                 /\ reservations' = reservations
                 /\ curr_t' = curr_t
                 /\ conflicts_avoided' = conflicts_avoided
                 /\ pc' = "leg" /\ i' = i + 1
            ELSE /\ pc' = "edge" /\ i' = i /\ j' = 0
                 /\ Len(path') >= 2
                 /\ path'[1] = stops[i + 1]
                 /\ path'[Len(path')] = stops[i + 2]
         ]_vars
    /\ []((pc = "idle" /\ ncalls > 0 /\ AllLegsUnreachable) =>
            all_events = <<>> /\ conflicts_avoided = 0)
    /\ [][((pc # "idle" \/ pc' # "idle") /\ AllLegsUnreachable') =>
            reservations' = reservations]_vars

\* a call over D, A, A, B has returned: its two first legs were skipped and
\* the third was booked at the requested start time
UnreachableLegWitness ==
    /\ pc = "idle" /\ stops = <<"D", "A", "A", "B">> /\ start_time = 15
    /\ Len(all_events) = 1
    /\ all_events[1].source = "A" /\ all_events[1].target = "B"
    /\ all_events[1].start_time = start_time

\* C11: within one schedule_route call the cursor never decreases, and in
\* the event list every event starts no earlier than the event before it
\* ends, in GREEDY and in CSP mode.
CursorMonotone ==
    /\ [][(pc # "idle") => curr_t' >= curr_t]_vars
    /\ [](\A n \in 2..Len(all_events) :
             all_events[n].start_time >= all_events[n - 1].end_time)
    /\ [](pc # "idle" =>
             /\ curr_t >= start_time
             /\ \A n \in 1..Len(all_events) : all_events[n].end_time <= curr_t)

\* a call over C, B, A has returned three events, the last of which had to
\* wait for the reservation the call itself made on the same track
CursorMonotoneWitness ==
    /\ pc = "idle" /\ stops = <<"C", "B", "A">>
    /\ Len(all_events) = 3
    /\ all_events[3].start_time > all_events[2].end_time + DWELL

\* the last event of the list being built
last_event == all_events[Len(all_events)]

\* the segment about to be handled is free for a traversal starting at t
FreeAt(t) ==
    ~SomeOverlap(reservations, edge_u, edge_v, t,
                 t + weight[get_edge_key(edge_u, edge_v)], DEFAULT_MARGIN)

\* C12: after the segments of a leg exactly 5 ticks of dwell are added to
\* the cursor: the first event of the next scheduled leg starts no earlier
\* than the previous leg's last event end + 5, and exactly at end + 5 when
\* its segment is free at that time; no dwell is added inside a leg:
\* consecutive segments of one leg, when free, are booked back to back.
DwellBetweenLegs ==
    /\ [][(pc = "edge" /\ ~HasEdge) =>
            /\ curr_t' = curr_t + 5
            /\ all_events' = all_events /\ reservations' = reservations
            /\ pc' = "leg" /\ i' = i + 1
         ]_vars
    /\ []((pc = "edge" /\ Len(all_events) >= 1) =>
            IF j = 0
            THEN /\ curr_t >= last_event.end_time + 5
                 /\ (mode = "GREEDY" => curr_t = last_event.end_time + 5)
            ELSE /\ curr_t >= last_event.end_time
                 /\ (mode = "GREEDY" => curr_t = last_event.end_time))
    /\ [][(pc = "edge" /\ HasEdge /\ Len(all_events) >= 1
                /\ Len(all_events') = Len(all_events) + 1) =>
            LET new == all_events'[Len(all_events')]
            IN  IF j = 0
                THEN /\ new.start_time >= last_event.end_time + 5
                     /\ ((curr_t = last_event.end_time + 5 /\ FreeAt(last_event.end_time + 5))
                            => new.start_time = last_event.end_time + 5)
                ELSE /\ new.start_time >= last_event.end_time
                     /\ ((curr_t = last_event.end_time /\ FreeAt(last_event.end_time))
                            => new.start_time = last_event.end_time)
         ]_vars
    /\ [][(pc = "edge" /\ HasEdge /\ FreeAt(curr_t)) =>
            /\ Len(all_events') = Len(all_events) + 1
            /\ all_events'[Len(all_events')].start_time = curr_t
         ]_vars

\* a call over B, A, C booked A-C exactly 5 ticks after its B-A event ended;
\* the next call, over C, B, A, waited for C-A and then booked C-A and A-B
\* back to back
DwellBetweenLegsWitness ==
    /\ pc = "idle" /\ ncalls = 2 /\ stops = <<"C", "B", "A">>
    /\ Len(all_events) = 3
    /\ all_events[1].start_time > start_time
    /\ all_events[2].start_time = all_events[1].end_time
    /\ DOMAIN reservations = {<<"A", "B">>, <<"A", "C">>}
    /\ reservations[<<"A", "C">>][1][1] = reservations[<<"A", "B">>][1][2] + 5

\* every list of res is kept in res2 as the beginning of the list of the
\* same segment: res2 is res with reservations appended
IsExtension(res, res2) ==
    /\ DOMAIN res \subseteq DOMAIN res2
    /\ \A k \in DOMAIN res :
          /\ Len(res2[k]) >= Len(res[k])
          /\ SubSeq(res2[k], 1, Len(res[k])) = res[k]

\* C13: first come, first served, without preemption: no step of a
\* schedule_route call removes, reorders or changes a reservation that was
\* in the table before (it only appends); reservations disappear only in
\* cleanup_old_reservations or reset.
NoPreemption ==
    /\ [][(pc # "idle" \/ pc' # "idle") => IsExtension(reservations, reservations')]_vars
    /\ [][~IsExtension(reservations, reservations') =>
            /\ pc = "idle" /\ pc' = "idle"
            /\ \/ reservations' = EmptyTable
               \/ \E t \in CleanupTimes :
                     reservations' = cleanup_old_reservations(reservations, t)
         ]_vars

\* the second call has returned after waiting; the segment A-B holds the
\* reservation of train 1 first and that of train 2 after it
NoPreemptionWitness ==
    /\ pc = "idle" /\ ncalls = 2 /\ train_id = 2 /\ conflicts_avoided > 0
    /\ <<"A", "B">> \in DOMAIN reservations
    /\ Len(reservations[<<"A", "B">>]) = 2
    /\ reservations[<<"A", "B">>][1][3] = 1
    /\ reservations[<<"A", "B">>][2][3] = 2

\* C14: _reserve is unconditional: it always appends (start, end, train_id)
\* as the last entry of the list of edge_key(u, v), also when the interval
\* conflicts with a stored reservation, and leaves every other segment's
\* list and all earlier entries unchanged.
ReserveAlwaysAppends ==
    [][\A uv \in TablePairs, s \in TableTimes, e \in TableTimes, tid \in TrainIds :
          TReserve(uv[1], uv[2], s, e, tid) =>
              /\ AppendedOnly(reservations, reservations', uv[1], uv[2], s, e, tid)
              /\ table_size(reservations') = table_size(reservations) + 1
      ]_vars

\* a segment holds two different reservations that overlap without any margin
ReserveAlwaysAppendsWitness ==
    /\ ~probe.called
    /\ \E k \in DOMAIN reservations :
          /\ Len(reservations[k]) = 2
          /\ Conflicting(reservations[k][1], reservations[k][2], 0)
          /\ reservations[k][1] # reservations[k][2]

\* C17: segments are undirected: _reserve(u, v, ...) and _reserve(v, u, ...)
\* append to the same list, _check_conflict(u, v, s, e) equals
\* _check_conflict(v, u, s, e) in every state, and every key of the table has
\* the lexicographically smaller station first; a traversal v -> u is blocked
\* by a reservation made for u -> v.
SegmentsUndirected ==
    /\ \A k \in DOMAIN reservations : StrLess(k[1], k[2])
    /\ \A uv \in TablePairs :
          /\ get_edge_key(uv[1], uv[2]) = get_edge_key(uv[2], uv[1])
          /\ \A s \in TableTimes, e \in TableTimes :
                /\ reserve(reservations, uv[1], uv[2], s, e, 1)
                      = reserve(reservations, uv[2], uv[1], s, e, 1)
                /\ \A m \in Margins :
                      check_conflict(reservations, uv[1], uv[2], s, e, m)
                        = check_conflict(reservations, uv[2], uv[1], s, e, m)
    /\ probe.called =>
          probe.result = SomeOverlap(reservations, probe.v, probe.u,
                                     probe.start, probe.end, probe.margin)

\* a check for the traversal B -> A was answered true while all the
\* reservations of the table are stored under the key (A, B)
SegmentsUndirectedWitness ==
    /\ probe.called /\ probe.u = "B" /\ probe.v = "A" /\ probe.result
    /\ DOMAIN reservations = {<<"A", "B">>}
    /\ Len(reservations[<<"A", "B">>]) = 2

\* C15: cleanup_old_reservations(t) drops, for every segment, exactly the
\* reservations whose end is not greater than t - 100 and keeps all the
\* others in their order; afterwards no segment with an empty list remains in
\* the table.
CleanupDropsExpired ==
    /\ [](\A t \in CleanupTimes :
             LET after == cleanup_old_reservations(reservations, t)
             IN  /\ DOMAIN after \subseteq DOMAIN reservations
                 /\ \A k \in DOMAIN reservations :
                       Booked(after, k[1], k[2])
                         = SelectSeq(reservations[k], LAMBDA r : ~(r[2] <= t - 100))
                 /\ \A k \in DOMAIN after : after[k] # <<>>)
    /\ [][\A t \in CleanupTimes :
             Cleanup(t) =>
                 /\ reservations' = cleanup_old_reservations(reservations, t)
                 /\ \A k \in DOMAIN reservations' : reservations'[k] # <<>>
         ]_vars

\* the only call made booked B-A until 60 and A-C after it; a cleanup at 160
\* (cutoff 60) has dropped the first reservation and with it the segment A-B
CleanupDropsExpiredWitness ==
    /\ pc = "idle" /\ ncalls = 1 /\ stops = <<"B", "A", "C">>
    /\ Len(all_events) = 2
    /\ all_events[1].end_time = 60
    /\ DOMAIN reservations = {<<"A", "C">>}
    /\ Len(reservations[<<"A", "C">>]) = 1

\* C16: cleanup is idempotent: cleanup_old_reservations(t) run twice in a
\* row leaves the table that running it once leaves.
CleanupIdempotent ==
    /\ [](\A t \in CleanupTimes :
             cleanup_old_reservations(cleanup_old_reservations(reservations, t), t)
               = cleanup_old_reservations(reservations, t))
    /\ [][\A t \in CleanupTimes :
             Cleanup(t) => cleanup_old_reservations(reservations', t) = reservations'
         ]_vars

\* two calls had left two reservations on A-B that end before 5100 and one
\* on A-C that ends after it; a cleanup at 5200 has dropped both of the former
CleanupIdempotentWitness ==
    /\ pc = "idle" /\ ncalls = 2 /\ stops = <<"B", "A", "C">>
    /\ Len(all_events) = 2
    /\ all_events[1].start_time >= 75
    /\ all_events[2].end_time > 5100
    /\ DOMAIN reservations = {<<"A", "C">>}
    /\ reservations[<<"A", "C">>] = << <<all_events[2].start_time, all_events[2].end_time, train_id>> >>

\* C18: check-then-reserve is not atomic.  When two schedule_route
\* executions for different trains interleave so that both run the conflict
\* test of one segment before either reserves, two conflicting reservations
\* of that segment can be stored; when each test-and-reserve pair is one
\* atomic step, no such state is reachable.
AtomicCheckReservePreventsRace ==
    /\ atomic => NoDoubleBooking
    /\ ~NoDoubleBooking =>
          /\ ~atomic
          /\ \A tid \in DOMAIN threads : threads[tid].booked

\* without the critical section both threads have reserved A-B, in opposite
\* directions, and their two reservations overlap
RaceDoubleBookingWitness ==
    /\ ~atomic
    /\ \A tid \in DOMAIN threads : threads[tid].pc = "done" /\ threads[tid].booked
    /\ threads[1].u = threads[2].v
    /\ Len(Booked(reservations, "A", "B")) = 2
    /\ Booked(reservations, "A", "B")[1][3] # Booked(reservations, "A", "B")[2][3]
    /\ Conflicting(Booked(reservations, "A", "B")[1], Booked(reservations, "A", "B")[2], 0)

\* a step of the running simulation: one call of update_simulation
TickStep == app_mode = "RUNNING" /\ app_mode' = "RUNNING"

\* every reservation of the table ends after t - 100
NothingStale(res, t) ==
    \A k \in DOMAIN res : \A n \in 1..Len(res[k]) : res[k][n][2] > t - 100

\* C19: a tick advances sim_time by exactly 1 and runs
\* cleanup_old_reservations(sim_time) on exactly the ticks whose sim_time is
\* a multiple of 500: right after such a tick the table holds no reservation
\* that a cleanup at that time would drop; on the other ticks nothing is
\* removed from the table.
TickCleansEvery500 ==
    /\ [][TickStep =>
            /\ sim_time' = sim_time + 1
            /\ IF sim_time' % 500 = 0
               THEN IsExtension(cleanup_old_reservations(reservations, sim_time'),
                                reservations')
               ELSE IsExtension(reservations, reservations')
         ]_vars
    /\ []((app_mode = "RUNNING" /\ sim_time > 0 /\ sim_time % 500 = 0) =>
            /\ NothingStale(reservations, sim_time)
            /\ cleanup_old_reservations(reservations, sim_time) = reservations)

\* the tick 500 has run: the reservation of the first planned event, which
\* ended before 400, is gone and later ones are still in the table
TickCleansWitness ==
    /\ app_mode = "RUNNING" /\ sim_time = 500
    /\ planned_events # <<>>
    /\ planned_events[1].end_time <= 400
    /\ reservations # EmptyTable
    /\ \A k \in DOMAIN reservations : \A n \in 1..Len(reservations[k]) :
          reservations[k][n][2] # planned_events[1].end_time

\* C20: an agent's active event is only ever set by popping the head of its
\* pending queue at a tick where it has no active event and the head's
\* start_time <= now; so no agent ever has an active event that starts after
\* now, and events become active in the order in which they were appended:
\* a tick removes at most the head of a queue and adds only at its end.
ActiveEventIsPoppedHead ==
    /\ [](\A n \in 1..Len(train_agents) :
             train_agents[n].current_event # <<>> =>
                 train_agents[n].current_event[1].start_time <= sim_time)
    /\ [][TickStep =>
            /\ Len(train_agents') = Len(train_agents)
            /\ \A n \in 1..Len(train_agents) :
                  LET a == train_agents[n]
                      b == train_agents'[n]
                      popped == /\ a.current_event = <<>>
                                /\ a.schedule_queue # <<>>
                                /\ Head(a.schedule_queue).start_time <= sim_time'
                  IN  /\ (b.current_event # <<>> /\ b.current_event # a.current_event) =>
                            popped /\ b.current_event = <<Head(a.schedule_queue)>>
                      /\ \E d \in {0, 1} :
                            /\ d = 1 => popped
                            /\ d = 0 => b.current_event \in {a.current_event, <<>>}
                            /\ Len(b.schedule_queue) >= Len(a.schedule_queue) - d
                            /\ SubSeq(b.schedule_queue, 1, Len(a.schedule_queue) - d)
                                  = SubSeq(a.schedule_queue, 1 + d, Len(a.schedule_queue))
         ]_vars

\* an agent that re-planned its route during the run has completed two
\* events, is on a third one and has more in its queue
ActiveEventWitness ==
    /\ app_mode = "RUNNING" /\ scheduling_ops >= 1
    /\ \E n \in 1..Len(train_agents) :
          /\ train_agents[n].trips_completed >= 2
          /\ train_agents[n].current_event # <<>>
          /\ train_agents[n].schedule_queue # <<>>

\* the event that agent a works on at tick now: its active event, or the
\* head of its queue when it has none and the head's start time has come
ActiveAt(a, now) ==
    IF a.current_event # <<>> THEN a.current_event
    ELSE IF a.schedule_queue # <<>> /\ Head(a.schedule_queue).start_time <= now
         THEN <<Head(a.schedule_queue)>>
         ELSE <<>>

\* C21: while now <= end_time of its active event an agent stays MOVING with
\* that event active; at the first tick where now exceeds end_time the event
\* completes: the active event is cleared, the logical node becomes the
\* event's target and trips_completed grows by exactly 1; the next queued
\* event is looked at from the following tick on.
EventRunsThenCompletes ==
    /\ [](\A n \in 1..Len(train_agents) :
             train_agents[n].current_event # <<>> =>
                 /\ train_agents[n].status = "MOVING"
                 /\ sim_time <= train_agents[n].current_event[1].end_time)
    /\ [][TickStep =>
            \A n \in 1..Len(train_agents) :
                LET a == train_agents[n]
                    b == train_agents'[n]
                    act == ActiveAt(a, sim_time')
                IN  act # <<>> =>
                      /\ b.total_journey_time = a.total_journey_time + 1
                      /\ b.schedule_queue = IF a.current_event # <<>>
                                            THEN a.schedule_queue
                                            ELSE Tail(a.schedule_queue)
                      /\ IF sim_time' <= act[1].end_time
                         THEN /\ b.status = "MOVING"
                              /\ b.current_event = act
                              /\ b.current_node = a.current_node
                              /\ b.trips_completed = a.trips_completed
                         ELSE /\ b.status = "WAITING"
                              /\ b.current_event = <<>>
                              /\ b.current_node = act[1].target
                              /\ b.trips_completed = a.trips_completed + 1
                              /\ (a.current_event # <<>> => sim_time' = act[1].end_time + 1)
         ]_vars

\* at tick 61 the first agent has just completed its event from 0 to 60: it
\* is at B, waits, and its next event is still queued
EventCompletesWitness ==
    /\ app_mode = "RUNNING" /\ sim_time = 61
    /\ Len(train_agents) >= 1
    /\ train_agents[1].trips_completed = 1
    /\ train_agents[1].current_event = <<>>
    /\ train_agents[1].status = "WAITING"
    /\ train_agents[1].current_node = "B"
    /\ train_agents[1].schedule_queue # <<>>

\* agent a starts the tick without an active event and with an empty queue
Arrived(a) == a.current_event = <<>> /\ a.schedule_queue = <<>>

\* the table after the cleanup, if any, of the tick that ends at time now
AfterCleanup(res, now) ==
    IF now % 500 = 0 THEN cleanup_old_reservations(res, now) ELSE res

SameSegmentActive(agents, m, n) ==
    /\ agents[m].current_event # <<>>
    /\ agents[n].current_event # <<>>
    /\ {agents[m].current_event[1].source, agents[m].current_event[1].target}
         = {agents[n].current_event[1].source, agents[n].current_event[1].target}

\* C28: in the running simulation, at the end of every tick no two distinct
\* agents have active events on the same undirected segment; this also holds
\* after the periodic cleanup and after agents have re-planned.
NoTwoAgentsOnOneSegment ==
    \A m, n \in 1..Len(train_agents) :
        m # n => ~SameSegmentActive(train_agents, m, n)

\* after the cleanup of tick 500 and after a re-plan, one agent is on the
\* segment A-B while the other one has its next event on that same segment
\* booked for later, behind the first one
NoTwoAgentsOnOneSegmentWitness ==
    /\ app_mode = "RUNNING"
    /\ sim_time > CLEANUP_PERIOD
    /\ scheduling_ops > Len(train_agents)
    /\ \E m, n \in 1..Len(train_agents) :
          /\ m # n
          /\ train_agents[m].current_event # <<>>
          /\ train_agents[n].current_event = <<>>
          /\ train_agents[n].schedule_queue # <<>>
          /\ {Head(train_agents[n].schedule_queue).source,
              Head(train_agents[n].schedule_queue).target}
               = {train_agents[m].current_event[1].source,
                  train_agents[m].current_event[1].target}
          /\ Head(train_agents[n].schedule_queue).start_time
               >= train_agents[m].current_event[1].end_time + DEFAULT_MARGIN

\* routes of the scenario whose legs all have a path
ReachableRoutes == {<<"A", "B">>, <<"C", "B", "A">>, <<"B", "A", "C">>}

\* C23: reset() clears the whole reservation table from any state: afterwards
\* no edge key is present, every conflict check returns false, and a booking
\* on a reachable route starts exactly at its requested start time: its first
\* event leaves the first stop at that time.
ResetClearsTable ==
    /\ [](pc = "idle" =>
            LET cleared == reset(reservations)
            IN  /\ DOMAIN cleared = {}
                /\ cleared = EmptyTable
                /\ \A u, v \in DOMAIN pos : \A s \in StartTimes : \A m \in Margins :
                      ~check_conflict(cleared, u, v, s, s + 60, m))
    /\ []((pc = "idle" /\ reservations = EmptyTable) =>
            \A st \in ReachableRoutes : \A t0 \in StartTimes : \A m \in Modes :
                \A o \in schedule_route(pos, weight, reset(reservations), 1, st, "red", t0, m) :
                    /\ Len(o.ev) >= Len(st) - 1
                    /\ o.ev[1].start_time = t0
                    /\ o.ev[1].source = st[1])
    /\ [][Reset => reservations' = EmptyTable]_vars
    /\ [][(pc = "leg" \/ pc = "edge") /\ table_size(reservations) = 0
              /\ all_events' # all_events =>
                  all_events'[1].start_time = start_time]_vars

\* the table is empty although the last call booked a run that ends after
\* every cleanup cutoff: only reset() can have removed it
ResetClearsTableWitness ==
    /\ pc = "idle"
    /\ reservations = EmptyTable
    /\ all_events # <<>>
    /\ all_events[Len(all_events)].end_time > 5200

\* the squared length in pixels of the track with key k
SquaredLength(k) ==
    (pos[k[2]][1] - pos[k[1]][1]) * (pos[k[2]][1] - pos[k[1]][1])
      + (pos[k[2]][2] - pos[k[1]][2]) * (pos[k[2]][2] - pos[k[1]][2])

\* C26: every track weight is an integer of at least 1, namely
\* max(1, floor(distance / 5)), also for two stations at the same position;
\* every event lasts exactly the weight of the track it traverses, so that
\* no event and no reservation has a zero or negative duration.
WeightsAndDurationsPositive ==
    /\ \A k \in DOMAIN weight :
          /\ weight[k] \in Nat
          /\ weight[k] >= 1
          /\ \/ weight[k] = 1 /\ SquaredLength(k) < 4 * PIXELS_PER_TICK * PIXELS_PER_TICK
             \/ /\ (PIXELS_PER_TICK * weight[k]) * (PIXELS_PER_TICK * weight[k])
                      <= SquaredLength(k)
                /\ SquaredLength(k)
                      < (PIXELS_PER_TICK * (weight[k] + 1)) * (PIXELS_PER_TICK * (weight[k] + 1))
    /\ \A n \in 1..Len(all_events) :
          /\ graph_edge(all_events[n].source, all_events[n].target) \in DOMAIN weight
          /\ all_events[n].end_time - all_events[n].start_time
               = weight[graph_edge(all_events[n].source, all_events[n].target)]
          /\ all_events[n].end_time > all_events[n].start_time
    /\ \A k \in DOMAIN reservations : \A n \in 1..Len(reservations[k]) :
          /\ reservations[k][n][2] > reservations[k][n][1]
          /\ reservations[k][n][2] - reservations[k][n][1] = weight[k]

\* a run over the track between two stations at the same position: the
\* track has weight 1 and the event lasts one tick
WeightsAndDurationsPositiveWitness ==
    /\ pos["D"] = pos["E"]
    /\ weight[graph_edge("D", "E")] = 1
    /\ \E n \in 1..Len(all_events) :
          /\ all_events[n].source = "E"
          /\ all_events[n].target = "D"
          /\ all_events[n].end_time = all_events[n].start_time + 1
    /\ get_edge_key("D", "E") \in DOMAIN reservations
    /\ \E n \in 1..Len(reservations[get_edge_key("D", "E")]) :
          reservations[get_edge_key("D", "E")][n][2]
            = reservations[get_edge_key("D", "E")][n][1] + 1

\* the number of segments on the paths of the legs n, n+1, ... of st
RECURSIVE RouteSegments(_, _)
RouteSegments(st, n) ==
    IF n > Len(st) - 1 THEN 0
    ELSE (Len(CHOOSE q \in get_path(pos, weight, st[n], st[n + 1]) : TRUE) - 1)
           + RouteSegments(st, n + 1)

\* the call that has just returned had a path for every leg and booked every
\* segment of these paths: no CSP probe gave up
CompleteBooking ==
    /\ pc = "idle" /\ ncalls > 0
    /\ Len(stops) >= 2
    /\ \A n \in 1..(Len(stops) - 1) : LegHasPath(stops[n], stops[n + 1])
    /\ Len(all_events) = RouteSegments(stops, 1)

\* C27: in a schedule_route result where every leg has a path and no CSP
\* probe aborted, the events form one connected walk: each event traverses
\* one existing track, the source of each event is the target of the previous
\* one, the first source is the first stop and the last target is the last
\* stop.
EventsFormConnectedWalk ==
    CompleteBooking =>
        /\ all_events # <<>>
        /\ \A n \in 1..Len(all_events) :
              /\ all_events[n].source # all_events[n].target
              /\ graph_edge(all_events[n].source, all_events[n].target) \in DOMAIN weight
        /\ \A n \in 2..Len(all_events) :
              all_events[n].source = all_events[n - 1].target
        /\ all_events[1].source = stops[1]
        /\ all_events[Len(all_events)].target = stops[Len(stops)]

\* the route C, B, A has returned its three events C-A, A-B, B-A
EventsFormConnectedWalkWitness ==
    /\ CompleteBooking
    /\ stops = <<"C", "B", "A">>
    /\ Len(all_events) = 3
    /\ all_events[2].source = "A" /\ all_events[2].target = "B"

\* C29: events and reservations correspond one to one: while a call runs,
\* each step either adds nothing to the events and leaves the table alone, or
\* appends one event and appends exactly the reservation
\* (start_time, end_time, train_id) of that event to the list of
\* edge_key(source, target), changing nothing else; so the table grows by
\* exactly the number of returned events.
OneReservationPerEvent ==
    [][/\ ncalls' = ncalls + 1 =>
            /\ all_events' = <<>>
            /\ reservations' = reservations
       /\ pc # "idle" =>
            \/ /\ all_events' = all_events
               /\ reservations' = reservations
            \/ /\ Len(all_events') = Len(all_events) + 1
               /\ all_events' = Append(all_events, all_events'[Len(all_events')])
               /\ LET e == all_events'[Len(all_events')]
                  IN  /\ e.train_id = train_id
                      /\ AppendedOnly(reservations, reservations', e.source, e.target,
                                      e.start_time, e.end_time, e.train_id)
               /\ table_size(reservations') = table_size(reservations) + 1
    ]_vars

\* two calls of three events each have returned and the table holds six
\* reservations
OneReservationPerEventWitness ==
    /\ pc = "idle" /\ ncalls = 2
    /\ stops = <<"C", "B", "A">>
    /\ Len(all_events) = 3
    /\ table_size(reservations) = 6
    /\ \A n \in 1..3 :
          \E m \in 1..Len(Booked(reservations, all_events[n].source, all_events[n].target)) :
              Booked(reservations, all_events[n].source, all_events[n].target)[m]
                = <<all_events[n].start_time, all_events[n].end_time, all_events[n].train_id>>

\* C30: every schedule_route call terminates: a running call always returns;
\* the GREEDY loop of a segment exits after finitely many steps of 20 ticks
\* (at the latest once the cursor is past every stored end plus the margin),
\* and the CSP probe of a segment leaves its loop after at most 501 conflict
\* tests.
CallsTerminate ==
    /\ (pc # "idle") ~> (pc = "idle")
    /\ [](GreedyEdgeStep =>
            LET g == greedy_wait(reservations, edge_u, edge_v, curr_t,
                                 edge_weight(weight, edge_u, edge_v), conflicts_avoided)
            IN  /\ g.done
                /\ g.t = curr_t + GREEDY_STEP * (g.c - conflicts_avoided)
                /\ g.c - conflicts_avoided < greedy_fuel(reservations, edge_u, edge_v, curr_t))
    /\ [](CspEdgeStep =>
            LET r == csp_probe(reservations, edge_u, edge_v, curr_t,
                               edge_weight(weight, edge_u, edge_v), conflicts_avoided)
            IN  /\ r.status \in {"found", "aborted"}
                /\ r.status = "found" => r.c - conflicts_avoided <= CSP_LIMIT \div CSP_STEP
                /\ r.status = "aborted" => r.c - conflicts_avoided = CSP_LIMIT \div CSP_STEP + 1)
    /\ [][CspEdgeStep =>
            conflicts_avoided' - conflicts_avoided <= CSP_LIMIT \div CSP_STEP + 1]_vars

\* a call has returned after a GREEDY wait of more than 200 steps, or after a
\* CSP probe that gave up at its 501st conflict
CallsTerminateWitness ==
    /\ pc = "idle" /\ ncalls = 2
    /\ \/ mode = "GREEDY" /\ conflicts_avoided > 200 /\ all_events # <<>>
       \/ mode = "CSP" /\ conflicts_avoided >= CSP_LIMIT \div CSP_STEP + 1
                       /\ Len(all_events) < RouteSegments(stops, 1)

\* the total weights of the walks from a to b over at most hops tracks
RECURSIVE WalkCosts(_, _, _, _)
WalkCosts(w, a, b, hops) ==
    IF a = b THEN {0}
    ELSE IF hops = 0 THEN {}
    ELSE UNION {{w[graph_edge(a, n)] + c : c \in WalkCosts(w, n, b, hops - 1)} :
                   n \in {m \in DOMAIN pos : m # a /\ graph_edge(a, m) \in DOMAIN w}}

\* the least of them
MinCost(w, a, b, hops) ==
    CHOOSE c \in WalkCosts(w, a, b, hops) : \A d \in WalkCosts(w, a, b, hops) : c <= d

\* the sum of the weights of the tracks along q
RECURSIVE TotalWeight(_, _)
TotalWeight(q, n) ==
    IF n >= Len(q) THEN 0
    ELSE weight[graph_edge(q[n], q[n + 1])] + TotalWeight(q, n + 1)

\* q is a cheapest route from a to b over the tracks of the graph
CheapestRoute(q, a, b) ==
    /\ Len(q) >= 1
    /\ q[1] = a
    /\ q[Len(q)] = b
    /\ \A n \in 1..(Len(q) - 1) :
          q[n] # q[n + 1] /\ graph_edge(q[n], q[n + 1]) \in DOMAIN weight
    /\ WalkCosts(weight, a, b, Cardinality(DOMAIN pos) - 1) # {}
    /\ TotalWeight(q, 1) = MinCost(weight, a, b, Cardinality(DOMAIN pos) - 1)

\* a and b are registered and some path joins them
Joined(a, b) ==
    /\ a \in DOMAIN pos /\ b \in DOMAIN pos
    /\ WalkCosts(weight, a, b, Cardinality(DOMAIN pos) - 1) # {}

\* C24: for registered stations a and b joined by some path, get_path(a, b)
\* returns a sequence that starts at a, ends at b, has every consecutive pair
\* joined by an existing track, and whose summed weights are the minimum
\* over all paths from a to b.
GetPathIsCheapest ==
    /\ [](\A q \in Queries :
             Joined(q[1], q[2]) =>
                 /\ get_path(pos, weight, q[1], q[2]) # {}
                 /\ \A r \in get_path(pos, weight, q[1], q[2]) :
                       CheapestRoute(r, q[1], q[2]))
    /\ [][(stops' # stops \/ path' # path) =>
              /\ stops' \in Queries
              /\ Joined(stops'[1], stops'[2]) => CheapestRoute(path', stops'[1], stops'[2])
         ]_vars

\* on the rhombus without diagonals the path between the opposite corners A
\* and C goes over two sides, and its weight is the sum of the two
GetPathIsCheapestWitness ==
    /\ DOMAIN pos = {"A", "B", "C", "D"}
    /\ DOMAIN weight = {graph_edge("A", "B"), graph_edge("B", "C"),
                        graph_edge("C", "D"), graph_edge("A", "D")}
    /\ stops = <<"A", "C">>
    /\ path = <<"A", "D", "C">>
    /\ CheapestRoute(path, "A", "C")
    /\ TotalWeight(path, 1) = weight[graph_edge("A", "D")] + weight[graph_edge("C", "D")]

\* C25: after any sequence of station additions, track additions, station
\* removals and track removals every track joins two currently registered
\* stations: add_track changes nothing when one of its endpoints is not
\* registered, and removing a station removes it together with all of its
\* incident tracks (and nothing else).
TracksJoinRegisteredStations ==
    /\ [](\A k \in DOMAIN weight : k[1] \in DOMAIN pos /\ k[2] \in DOMAIN pos)
    /\ [](\A u, v \in QueryNames :
             (u \notin DOMAIN pos \/ v \notin DOMAIN pos) => add_track(pos, weight, u, v) = weight)
    /\ [](\A n \in DOMAIN pos :
             /\ DOMAIN remove_station_pos(pos, n) = (DOMAIN pos) \ {n}
             /\ DOMAIN remove_station_tracks(weight, n)
                  = {k \in DOMAIN weight : k[1] # n /\ k[2] # n})
    /\ [][\A n \in DOMAIN pos :
              n \notin DOMAIN pos' =>
                  /\ DOMAIN pos' = (DOMAIN pos) \ {n}
                  /\ \A m \in DOMAIN pos' : pos'[m] = pos[m]
                  /\ DOMAIN weight' = {k \in DOMAIN weight : k[1] # n /\ k[2] # n}
                  /\ \A k \in DOMAIN weight' : weight'[k] = weight[k]
         ]_vars

\* station A has been removed after a path over its track to B had been
\* found: A is gone, no track touches it, and the other tracks are still there
TracksJoinRegisteredStationsWitness ==
    /\ stops = <<"A", "C">>
    /\ path = <<"A", "B", "C">>
    /\ DOMAIN pos = {"B", "C", "D"}
    /\ DOMAIN weight = {graph_edge("B", "C"), graph_edge("C", "D")}

\* the table with every reservation attributed to train tid
Retagged(res, tid) ==
    [k \in DOMAIN res |-> [n \in 1..Len(res[k]) |-> <<res[k][n][1], res[k][n][2], tid>>]]

\* the calling train itself holds a reservation of the segment about to be
\* handled that is in the way of a traversal starting at the cursor
OwnReservationInTheWay ==
    \E n \in 1..Len(Booked(reservations, edge_u, edge_v)) :
        /\ Booked(reservations, edge_u, edge_v)[n][3] = train_id
        /\ Conflicting(<<curr_t, curr_t + weight[get_edge_key(edge_u, edge_v)]>>,
                       Booked(reservations, edge_u, edge_v)[n], DEFAULT_MARGIN)

\* C31: the conflict check ignores train identity: its answer does not
\* depend on which train holds the stored reservations, a train's own
\* earlier reservation of a segment makes its later traversal of that segment
\* wait (counted in conflicts_avoided), and two reservations of one segment
\* by the same train are separated by the margin.
OwnReservationsBlock ==
    /\ [](\A u, v \in DOMAIN pos : \A s \in StartTimes \cup {curr_t} : \A tid \in TrainIds :
             check_conflict(reservations, u, v, s, s + 60, DEFAULT_MARGIN)
               = check_conflict(Retagged(reservations, tid), u, v, s, s + 60, DEFAULT_MARGIN))
    /\ [](\A k \in DOMAIN reservations : \A a, b \in 1..Len(reservations[k]) :
             (a # b /\ reservations[k][a][3] = reservations[k][b][3]) =>
                 ~Conflicting(reservations[k][a], reservations[k][b], DEFAULT_MARGIN))
    /\ [][(pc = "edge" /\ HasEdge /\ OwnReservationInTheWay) =>
              /\ conflicts_avoided' > conflicts_avoided
              /\ all_events' # all_events =>
                    all_events'[Len(all_events')].start_time > curr_t
         ]_vars

\* the first call, over C, B, A, has returned: the run back from B to A had
\* to wait for the reservation the same train made on its way from A to B
OwnReservationsBlockWitness ==
    /\ pc = "idle" /\ ncalls = 1
    /\ stops = <<"C", "B", "A">>
    /\ Len(all_events) = 3
    /\ conflicts_avoided >= 1
    /\ all_events[2].source = "A" /\ all_events[2].target = "B"
    /\ all_events[3].source = "B" /\ all_events[3].target = "A"
    /\ all_events[3].train_id = all_events[2].train_id
    /\ all_events[3].start_time >= all_events[2].end_time + DEFAULT_MARGIN
    /\ all_events[3].start_time > all_events[2].end_time + DWELL

\* the sum of the weights of the tracks of the events n, n+1, ... of the result
RECURSIVE TraversedWeight(_)
TraversedWeight(n) ==
    IF n > Len(all_events) THEN 0
    ELSE weight[graph_edge(all_events[n].source, all_events[n].target)]
           + TraversedWeight(n + 1)

\* C32: time accounting: for a GREEDY call in which every leg has a path of
\* at least 2 stations, the end of the last event is the requested start
\* time plus the weights of all traversed tracks plus 20 ticks per avoided
\* conflict plus 5 ticks of dwell per leg but the last; for a CSP call in
\* which no probe gave up the same holds with 10 ticks per avoided conflict.
TimeAccounting ==
    CompleteBooking =>
        last_event.end_time
          = start_time + TraversedWeight(1)
              + (IF mode = "GREEDY" THEN GREEDY_STEP ELSE CSP_STEP) * conflicts_avoided
              + DWELL * (Len(stops) - 2)

\* a GREEDY call over two legs has returned after waiting more than once
TimeAccountingWitness ==
    /\ CompleteBooking
    /\ mode = "GREEDY"
    /\ stops = <<"B", "A", "C">>
    /\ conflicts_avoided > 1
    /\ TraversedWeight(1) = 5060
    /\ last_event.end_time = start_time + 5060 + GREEDY_STEP * conflicts_avoided + DWELL

\* the times of the application's cleanups, and the times at which some
\* stored reservation has just ended or is just dropped
TightCleanupTimes ==
    CleanupTimes \cup
    UNION { {reservations[k][n][2] + d :
                d \in {0, CLEANUP_GRACE}, n \in 1..Len(reservations[k])} :
            k \in DOMAIN reservations }

\* C33: cleanup never changes a scheduling decision about the present or the
\* future: for every table, every t and every u, v, start, end with
\* start >= t, _check_conflict(u, v, start, end) returns the same value on
\* the table before and after cleanup_old_reservations(t).  The tables are
\* those between two calls, where a cleanup can run.
CleanupKeepsDecisions ==
    pc = "idle" =>
    \A t \in TightCleanupTimes :
        \A cleaned \in {cleanup_old_reservations(reservations, t)} :
            \A k \in (DOMAIN reservations) \cup {<<"B", "C">>} :
                \A d \in {0, GREEDY_STEP} :
                    check_conflict(reservations, k[2], k[1], t + d, t + d + 60, DEFAULT_MARGIN)
                      = check_conflict(cleaned, k[2], k[1], t + d, t + d + 60, DEFAULT_MARGIN)

\* the cleanup at 160 drops a reservation of A-B and keeps a later one, which
\* is still in the way of a run starting at 160
CleanupKeepsDecisionsWitness ==
    /\ pc = "idle"
    /\ get_edge_key("A", "B") \in DOMAIN reservations
    /\ get_edge_key("A", "B") \in DOMAIN cleanup_old_reservations(reservations, 160)
    /\ Len(cleanup_old_reservations(reservations, 160)[get_edge_key("A", "B")])
         < Len(reservations[get_edge_key("A", "B")])
    /\ check_conflict(reservations, "A", "B", 160, 220, DEFAULT_MARGIN)
    /\ check_conflict(cleanup_old_reservations(reservations, 160), "A", "B", 160, 220,
                      DEFAULT_MARGIN)

\* the events agent n has been given so far and has not completed, the
\* active one first
Unfinished(n) == train_agents[n].current_event \o train_agents[n].schedule_queue

\* the k-th event given to agent n is waiting in its queue or active, and
\* ends before the last tick of the run
Outstanding(n, k) ==
    /\ app_mode = "RUNNING"
    /\ n <= Len(train_agents)
    /\ train_agents[n].trips_completed < k
    /\ k <= train_agents[n].trips_completed + Len(Unfinished(n))
    /\ Unfinished(n)[k - train_agents[n].trips_completed].end_time < MaxSimTime

\* the k-th event given to agent n is its active event, and ends before the
\* last tick of the run
NowActive(n, k) ==
    /\ app_mode = "RUNNING"
    /\ n <= Len(train_agents)
    /\ train_agents[n].trips_completed = k - 1
    /\ train_agents[n].current_event # <<>>
    /\ train_agents[n].current_event[1].end_time < MaxSimTime

\* agent n has completed k events
Completed(n, k) ==
    /\ app_mode = "RUNNING"
    /\ n <= Len(train_agents)
    /\ train_agents[n].trips_completed >= k

\* the events of one agent that can end within the run: one trip on the track
\* A-B and the pause before the next plan take 160 ticks
EventsWithinRun == MaxSimTime \div (60 + REPLAN_DELAY)

\* C34: under continued ticks every event appended to an agent's queue
\* eventually becomes that agent's active event and later completes, counted
\* by trips_completed, unless the simulation is stopped first: no event stays
\* queued for ever and no active event stays active for ever.
EveryEventCompletes ==
    \A n \in 1..2 : \A k \in 1..EventsWithinRun :
        /\ Outstanding(n, k) ~> (NowActive(n, k) \/ app_mode = "EDITOR")
        /\ NowActive(n, k) ~> (Completed(n, k) \/ app_mode = "EDITOR")

\* the second agent has completed its third event, which came from a re-plan
EveryEventCompletesWitness ==
    /\ app_mode = "RUNNING"
    /\ Len(train_agents) = 2
    /\ train_agents[2].trips_completed >= 3
    /\ train_agents[1].trips_completed >= 1
    /\ scheduling_ops > Len(train_agents)

\* agent n has no active event before the step and has one after it
BecomesActive(n) ==
    /\ app_mode = "RUNNING" /\ app_mode' = "RUNNING"
    /\ n <= Len(train_agents) /\ n <= Len(train_agents')
    /\ train_agents[n].current_event = <<>>
    /\ train_agents'[n].current_event # <<>>

\* C35: route continuity of an agent: whenever an event becomes an agent's
\* active event, the source of the event is the agent's current logical node,
\* also for the first event of a route planned again from the first stop.
RouteContinuity ==
    [][\A n \in 1..2 :
          BecomesActive(n) =>
              /\ train_agents'[n].current_event[1].source = train_agents[n].current_node
              /\ train_agents'[n].current_event[1].source = train_agents'[n].current_node]_vars

\* the first agent, whose route is A, B, has reached B and is running its
\* next event, which starts at A
StartsAwayFromItsStation ==
    /\ app_mode = "RUNNING"
    /\ Len(train_agents) >= 1
    /\ train_agents[1].trips_completed >= 1
    /\ train_agents[1].current_node = "B"
    /\ train_agents[1].current_event # <<>>
    /\ train_agents[1].current_event[1].source = "A"

\* the stop lists of two stations joined by a track
SingleEdgeRoutes ==
    {st \in {<<"A", "B">>, <<"B", "A">>, <<"A", "C">>, <<"E", "D">>} :
        st[1] \in DOMAIN pos /\ st[2] \in DOMAIN pos
        /\ graph_edge(st[1], st[2]) \in DOMAIN weight}

\* the events that schedule_route returns for the route st from the current
\* table and the start time t0 in the two modes, as pairs <<GREEDY, CSP>>
BothPlans(st, t0) ==
    { <<og.ev, oc.ev>> :
        og \in schedule_route(pos, weight, reservations, 1, st, "red", t0, "GREEDY"),
        oc \in schedule_route(pos, weight, reservations, 1, st, "red", t0, "CSP") }

\* C36: for a route of one segment planned from the same table and the same
\* start time, a CSP booking (made whenever the probe does not abort) starts
\* no later than the GREEDY booking, and GREEDY always books.
CspStartsNoLater ==
    pc = "idle" =>
    \A st \in SingleEdgeRoutes : \A t0 \in StartTimes : \A b \in BothPlans(st, t0) :
        /\ Len(b[1]) = 1
        /\ Len(b[2]) <= 1
        /\ b[2] # <<>> => b[2][1].start_time <= b[1][1].start_time

\* on a table left by earlier calls both modes have to wait on the track A-B
\* and the CSP booking starts before the GREEDY booking
CspStartsNoLaterWitness ==
    /\ pc = "idle"
    /\ table_size(reservations) >= 1
    /\ \E t0 \in StartTimes : \E b \in BothPlans(<<"A", "B">>, t0) :
           /\ b[2] # <<>>
           /\ t0 < b[2][1].start_time
           /\ b[2][1].start_time < b[1][1].start_time

====
